---- MODULE Spec2Model ----
(***************************************************************************)
(* Grade-record extraction and averaging of the student-record analysis    *)
(* tool (src/utils.py, src/analysis/grade_calculator.py).                  *)
(*                                                                         *)
(* Text is modelled as a sequence of characters.  TLA+ strings are ASCII,  *)
(* so each Hangul syllable is written as one romanised token:              *)
(*   학 hak  기 gi  교 gyo  과 gwa  목 mok  점 jeom  수 su  원 won          *)
(*   평 pyeong  균 gyun  석 seok  차 cha  등 deung  급 geup  국 guk  어 eo  *)
(*   영 yeong  한 han  사 sa  회 hoe  정 jeong  보 bo  체 che  육 yuk       *)
(*   자 ja  율 yul  진 jin  로 ro  희 hui  망 mang  물 mul  리 li  ...      *)
(* A missing cell (pandas NaN) is the empty sequence NA; read_csv never    *)
(* yields an empty string, so the two cannot be confused on input.         *)
(* Averages are exact rationals <<numerator, denominator>>.                *)
(***************************************************************************)
EXTENDS Integers, Sequences, FiniteSets, TLC

VARIABLES input, pc, frames, result, session

vars == <<input, pc, frames, result, session>>

(* ------------------------------ bounds -------------------------------- *)

\* Largest number of course rows in an uploaded grades block.
MaxCourses == 3

\* Largest number of uploads handled one after the other.
MaxUploads == 3

(* ------------------------------- text --------------------------------- *)

NA == << >>

IsNA(c) == c = NA

NotNA(c) == c # NA

\* str(cell): a missing cell prints as 'nan'.
Str(c) == IF IsNA(c) THEN <<"n", "a", "n">> ELSE c


SetMin(S) == CHOOSE x \in S : \A y \in S : x <= y

SetMax(S) == CHOOSE x \in S : \A y \in S : x >= y

\* The part of s from the first to the last of the positions `keep`.
Span(s, keep) ==
  IF keep = {} THEN << >> ELSE SubSeq(s, SetMin(keep), SetMax(keep))

\* str.strip()
Strip(s) == Span(s, {i \in 1..Len(s) : s[i] \notin {" ", "\n"}})

\* Python's `sub in s` on strings.
Contains(sub, s) ==
  \E i \in 0..(Len(s) - Len(sub)) : SubSeq(s, i + 1, i + Len(sub)) = sub

\* The part of s before the first of the positions `at`, s if there is none.
Before(s, at) == IF at = {} THEN s ELSE SubSeq(s, 1, SetMin(at) - 1)

\* s.split(sep)[0]
SplitFirst(s, sep) == Before(s, {i \in 1..Len(s) : s[i] = sep})


DigitVal(d) ==
  CASE d = "0" -> 0 [] d = "1" -> 1 [] d = "2" -> 2 [] d = "3" -> 3
    [] d = "4" -> 4 [] d = "5" -> 5 [] d = "6" -> 6 [] d = "7" -> 7
    [] d = "8" -> 8 [] d = "9" -> 9

RECURSIVE Numeral(_)
Numeral(t) ==
  IF t = << >> THEN 0
  ELSE 10 * Numeral(SubSeq(t, 1, Len(t) - 1)) + DigitVal(t[Len(t)])

\* float(text): surrounding whitespace is ignored; over the alphabet of the
\* grids a text is a number exactly when it is a non-empty run of digits.
\* ok = FALSE stands for ValueError.
ParseStripped(t) ==
  IF t # << >> /\ \A i \in 1..Len(t) : t[i] \in {"0", "1", "2", "3", "4", "5", "6", "7", "8", "9"}
  THEN [ok |-> TRUE, v |-> Numeral(t)]
  ELSE [ok |-> FALSE, v |-> 0]

ParseFloat(s) == ParseStripped(Strip(s))

(* ----------------------------- rationals ------------------------------ *)

RECURSIVE Gcd(_, _)
Gcd(a, b) == IF b = 0 THEN a ELSE Gcd(b, a % b)


Reduce(n, d, g) == <<n \div g, d \div g>>

\* n / d with d > 0, in lowest terms.
Frac(n, d) == Reduce(n, d, Gcd(IF n < 0 THEN 0 - n ELSE n, d))

Zero == Frac(0, 1)

\* (a + b) / 2
Mean2(a, b) == Frac(a[1] * b[2] + b[1] * a[2], 2 * a[2] * b[2])

IsPositive(a) == a[1] > 0

\* The integer nearest to q + r / d (0 <= r < d), ties to even.
NearestEven(q, r, d) ==
  IF 2 * r > d THEN q + 1
  ELSE IF 2 * r < d THEN q
  ELSE IF q % 2 = 0 THEN q ELSE q + 1

\* round(x, 2) for x >= 0: nearest hundredth, ties to even.
Round2(a) ==
  Frac(NearestEven((100 * a[1]) \div a[2], (100 * a[1]) % a[2], a[2]), 100)

(* ------------------------------- dicts -------------------------------- *)

EmptyDict == [k \in {} |-> NA]

\* d[key] = value
Put(d, key, value) ==
  [k \in DOMAIN d \cup {key} |-> IF k = key THEN value ELSE d[k]]

\* Some member of a set (the order of a sum does not matter).
AnyOf(S) == CHOOSE x \in S : TRUE

RECURSIVE SumOver(_, _, _)
\* sum(F(d[k]) for k in keys), F given as the name of a field
SumOver(d, keys, fld) ==
  IF keys = {} THEN 0
  ELSE d[AnyOf(keys)][fld] + SumOver(d, keys \ {AnyOf(keys)}, fld)

RECURSIVE SumProduct(_, _, _, _)
SumProduct(d, keys, f1, f2) ==
  IF keys = {} THEN 0
  ELSE d[AnyOf(keys)][f1] * d[AnyOf(keys)][f2]
       + SumProduct(d, keys \ {AnyOf(keys)}, f1, f2)

(* ------------------------------ labels -------------------------------- *)

Gugeo == <<"guk", "eo">>                                   \* 국어
Suhak == <<"su", "hak">>                                   \* 수학
Yeongeo == <<"yeong", "eo">>                               \* 영어
Hanguksa == <<"han", "guk", "sa">>                         \* 한국사
Sahoe == <<"sa", "hoe">>                                   \* 사회
Gwahak == <<"gwa", "hak">>                                 \* 과학
GwahakTamguSilheom == <<"gwa", "hak", "tam", "gu", "sil", "heom">>  \* 과학탐구실험
Jeongbo == <<"jeong", "bo">>                               \* 정보
Cheyuk == <<"che", "yuk">>                                 \* 체육
Eumak == <<"eum", "ak">>                                   \* 음악
Misul == <<"mi", "sul">>                                   \* 미술
MullihakI == <<"mul", "li", "hak", "I">>                   \* 물리학Ⅰ

Jayul == <<"ja", "yul">>                                   \* 자율
Dongari == <<"dong", "a", "ri">>                           \* 동아리
Jinro == <<"jin", "ro">>                                   \* 진로
Haengteuk == <<"haeng", "teuk">>                           \* 행특
Gaein == <<"gae", "in">>                                   \* 개인
Jinrohuimang == <<"jin", "ro", "hui", "mang">>             \* 진로희망
Mijeong == <<"mi", "jeong">>                               \* 미정

Hakgi == <<"hak", "gi">>                                   \* 학기
HakGiSpaced == <<"hak", " ", "gi">>                        \* 학 기
GyoGwaSpaced == <<"gyo", " ", "gwa">>                      \* 교 과
Gwamok == <<"gwa", "mok">>                                 \* 과목
GwaMokSpaced == <<"gwa", " ", "mok">>                      \* 과 목
Hakjeomsu == <<"hak", "jeom", "su">>                       \* 학점수
Wonjeomsu == <<"won", "jeom", "su">>                       \* 원점수
\* 원점수/과목평균
WonjeomsuGwamokPyeonggyun ==
  <<"won", "jeom", "su", "/", "gwa", "mok", "pyeong", "gyun">>
Seongchwido == <<"seong", "chwi", "do">>                   \* 성취도
Seokchadeunggeup == <<"seok", "cha", "deung", "geup">>     \* 석차등급

One == <<"1">>
Two == <<"2">>

(* -------------------------- frames and rows --------------------------- *)

\* The first n cells of a row (DataFrame.iloc[:, :n]).
Take(row, n) == SubSeq(row, 1, n)

\* Rows of which not every cell at the columns `subset` is missing
\* (DataFrame.dropna(subset=..., how='all')), order kept.
RECURSIVE DropAllNA(_, _)
DropAllNA(rows, subset) ==
  IF rows = << >> THEN << >>
  ELSE LET rest == DropAllNA(Tail(rows), subset)
       IN  IF \A j \in subset : IsNA(Head(rows)[j])
           THEN rest ELSE <<Head(rows)>> \o rest

(* ------------------- process_csv_file (src/utils.py) ------------------ *)

\* What process_csv_file returns after any exception: the empty dict {}.
EmptyResult == [ok |-> FALSE]

\* Row index (0-based) where grade rows start.
grade_data_start == 3

pcf_subject_headers ==
  {Gugeo, Suhak, Yeongeo, Hanguksa, Sahoe, Gwahak, GwahakTamguSilheom,
   Jeongbo, Cheyuk, Eumak, Misul}

pcf_activity_headers == {Jayul, Dongari, Jinro, Haengteuk, Gaein}

\* The dict with key headers[i] and value notes[i] for the columns `hit`,
\* the last column winning when a header repeats.
LastWins(headers, notes, hit) ==
  [h \in {headers[i] : i \in hit} |->
     notes[SetMax({i \in hit : headers[i] = h})]]

\* The remark dict built by the loop over enumerate(headers): an entry for
\* each header of `labels` with a cell in the notes row.
pcf_remarks(headers, notes, labels) ==
  LastWins(headers, notes,
           {i \in 1..Len(headers) :
              NotNA(headers[i]) /\ NotNA(notes[i]) /\ headers[i] \in labels})

LastOr(notes, hit, default) ==
  IF hit = {} THEN default ELSE notes[SetMax(hit)]

pcf_career(headers, notes) ==
  LastOr(notes,
         {i \in 1..Len(headers) :
            NotNA(headers[i]) /\ NotNA(notes[i])
            /\ headers[i] \notin pcf_subject_headers
            /\ headers[i] \notin pcf_activity_headers
            /\ headers[i] = Jinrohuimang},
         Mijeong)

\* grade_info of a row whose 석차등급, 학점수 and first score token parse as
\* rank, credit and raw.
pcf_info(row, rank, credit, raw) ==
  [semester |-> Strip(Str(row[1])),
   subject |-> Strip(Str(row[2])),
   built |-> NotNA(row[6]) /\ NotNA(row[3]) /\ rank.ok /\ credit.ok,
   info |-> [rank |-> rank.v,
             raw_score |-> IF IsNA(row[4]) THEN 0
                           ELSE IF raw.ok THEN raw.v
                           ELSE 100 - ((rank.v - 1) * 10),
             credit |-> credit.v]]

\* One grade row, columns [학기, 과목, 학점수, 원점수/과목평균, 성취도, 석차등급]:
\* whether a grade_info is built for it, and which.
pcf_row(row) ==
  pcf_info(row, ParseFloat(row[6]), ParseFloat(row[3]),
           ParseFloat(Strip(SplitFirst(Str(row[4]), "/"))))

\* A store that does not look at the semester cell.
pcf_store_any(d, r, semester) ==
  IF r.built THEN Put(d, r.subject, r.info) ELSE d

\* The dict d after the row r, for the dict of `semester`.
pcf_store(d, r, semester) ==
  IF r.built /\ r.semester = semester THEN Put(d, r.subject, r.info) ELSE d

RECURSIVE pcf_grades_kept(_, _)
\* The two dicts kept from one call to the next instead of starting empty.
pcf_grades_kept(rows, semester) ==
  IF rows = << >>
  THEN IF result.by = "process_csv_file" /\ result.value.ok
       THEN IF semester = One
            THEN result.value.academic_records.semester1.grades
            ELSE result.value.academic_records.semester2.grades
       ELSE EmptyDict
  ELSE pcf_store(pcf_grades_kept(SubSeq(rows, 1, Len(rows) - 1), semester),
                 pcf_row(rows[Len(rows)]), semester)

RECURSIVE pcf_grades(_, _)
\* semester1_grades / semester2_grades after the loop over the rows.
pcf_grades(rows, semester) ==
  IF rows = << >> THEN EmptyDict
  ELSE pcf_store(pcf_grades(SubSeq(rows, 1, Len(rows) - 1), semester),
                 pcf_row(rows[Len(rows)]), semester)

csa_main_keys == {Gugeo, Yeongeo, Suhak}

\* sum(rank) / len over the subjects `keys`, 0 for none.
csa_mean(grades, keys) ==
  IF keys = {} THEN Zero
  ELSE Frac(SumOver(grades, keys, "rank"), Cardinality(keys))

calculate_semester_average(grades) ==
  [total |-> csa_mean(grades, DOMAIN grades),
   main_subjects |->
     csa_mean(grades, {s \in DOMAIN grades :
                         \E key \in csa_main_keys : Contains(key, s)})]

pcf_semester(grades) ==
  [grades |-> grades, average |-> calculate_semester_average(grades)]

\* student_data, from the header row, the notes row and the grade rows.
pcf_student_data(headers, notes, grade_data) ==
  [ok |-> TRUE,
   special_notes |->
     [subjects |-> pcf_remarks(headers, notes, pcf_subject_headers),
      activities |-> pcf_remarks(headers, notes, pcf_activity_headers)],
   academic_records |->
     [semester1 |-> pcf_semester(pcf_grades(grade_data, One)),
      semester2 |-> pcf_semester(pcf_grades(grade_data, Two))],
   career_aspiration |-> pcf_career(headers, notes)]

\* grade_data: the rows from index grade_data_start on, their first six
\* cells, without the rows that miss both 학기 and 과목.
pcf_grade_data(file) ==
  DropAllNA([i \in 1..(Len(file) - grade_data_start) |->
               Take(file[i + grade_data_start], 6)], {1, 2})

\* file: the rows of the CSV, read with header=None.
process_csv_file(file) ==
  IF Len(file) < 2 THEN EmptyResult                \* df.iloc[1]: IndexError
  ELSE IF Len(file[1]) < 6 THEN EmptyResult        \* columns: length mismatch
  ELSE pcf_student_data(file[1], file[2], pcf_grade_data(file))

(* -------------------- preprocess_csv (src/utils.py) ------------------- *)

\* A DataFrame: its column labels and its rows.
Frame(cols, rows) == [cols |-> cols, rows |-> rows]

\* pd.DataFrame()
EmptyFrame == Frame(<< >>, << >>)

\* DataFrame.empty
IsEmptyFrame(f) == f.rows = << >> \/ f.cols = << >>

\* 원점수/과목평균\n (표준편차) and 성취도\n (수강자수) are the long labels.
grade_columns ==
  <<HakGiSpaced, GyoGwaSpaced, GwaMokSpaced, Hakjeomsu,
    WonjeomsuGwamokPyeonggyun
      \o <<"\n", " ", "(", "pyo", "jun", "pyeon", "cha", ")">>,
    Seongchwido \o <<"\n", " ", "(", "su", "gang", "ja", "su", ")">>,
    Seokchadeunggeup>>

\* The cells of `row` at the columns `keep` (an increasing sequence).
Project(row, keep) == [j \in 1..Len(keep) |-> row[keep[j]]]

RECURSIVE Increasing(_)
\* The members of a set of numbers as an increasing sequence.
Increasing(S) ==
  IF S = {} THEN << >> ELSE <<SetMin(S)>> \o Increasing(S \ {SetMin(S)})

\* The split at row grade_section of the frame (columns, rows).
pre_split(columns, rows, grade_section) ==
  [raised |-> FALSE,
   main_data |-> Frame(columns, SubSeq(rows, 1, grade_section - 1)),
   grade_data |->
     Frame(grade_columns,
           DropAllNA([i \in 1..(Len(rows) - grade_section + 1) |->
                        Take(rows[i + grade_section - 1], Len(grade_columns))],
                     {1, 2, 3}))]

\* The search for the grades section in the frame (columns, rows); found:
\* the rows whose first cell is '학 기'.
pre_section(columns, rows, found) ==
  IF found = {}
  THEN [raised |-> FALSE, main_data |-> Frame(columns, rows),
        grade_data |-> EmptyFrame]
  ELSE IF Len(columns) < Len(grade_columns)
  THEN [raised |-> TRUE]                           \* columns: length mismatch
  ELSE pre_split(columns, rows, SetMin(found))

pre_find(columns, rows) ==
  pre_section(columns, rows,
              {i \in 1..Len(rows) : rows[i][1] = HakGiSpaced})

\* data: the non-empty rows below the line read as labels; keep: the columns
\* some row fills.  The first row becomes the labels.
pre_promote(data, keep) ==
  IF data = << >> THEN [raised |-> TRUE]           \* df.iloc[0]: IndexError
  ELSE pre_find(Project(data[1], keep),
                [i \in 1..(Len(data) - 1) |-> Project(data[i + 1], keep)])

pre_dropna(data, width) ==
  pre_promote(data,
              Increasing({j \in 1..width :
                            \E i \in 1..Len(data) : NotNA(data[i][j])}))

\* file: the lines of the CSV.  pd.read_csv(file) takes line 1 as the column
\* labels; dropna removes the empty rows and the columns no data row fills;
\* then the first remaining row replaces the labels.
preprocess_csv(file) ==
  IF file = << >> THEN [raised |-> TRUE]           \* EmptyDataError
  ELSE pre_dropna(DropAllNA(Tail(file), 1..Len(file[1])), Len(file[1]))

(* ----------------- extract_student_info (src/utils.py) ---------------- *)

subject_cols ==
  {Gugeo, Suhak, Yeongeo, Hanguksa, Sahoe, Gwahak, GwahakTamguSilheom,
   Jeongbo, Cheyuk, Eumak, Misul}

activity_cols == {Jayul, Dongari, Jinro, Haengteuk, Gaein}

career_cols == {Jinrohuimang}

main_subjects == {Gugeo, Suhak, Yeongeo, Sahoe, Gwahak, Hanguksa, Jeongbo}

\* Positions of the columns of frame f labelled col.
ColumnsNamed(f, col) == {j \in 1..Len(f.cols) : f.cols[j] = col}

\* The cells of column j at the rows `at`, top down.
CellsAt(f, j, at) == [n \in 1..Len(at) |-> f.rows[at[n]][j]]

\* Column j without its missing cells (Series.dropna()).
DropNA(f, j) ==
  CellsAt(f, j, Increasing({i \in 1..Len(f.rows) : NotNA(f.rows[i][j])}))

\* special_notes[col].dropna() for a label that names one column.
ColumnValues(f, col) == DropNA(f, AnyOf(ColumnsNamed(f, col)))

\* Which branch of the loop over special_notes.columns handles the label col.
\* A missing label, or one that names several columns, makes the body raise,
\* and the raise is caught and the column skipped.
RemarkBranch(f, col) ==
  IF IsNA(col) \/ Cardinality(ColumnsNamed(f, col)) # 1 THEN "skipped"
  ELSE IF col \in subject_cols /\ ColumnValues(f, col) # << >> THEN "subject"
  ELSE IF col \in activity_cols \/ \E act \in activity_cols : Contains(act, col)
       THEN "activity"
  ELSE IF col \in career_cols THEN "career"
  ELSE "none"

\* The dict of the first cell of each column of `hit`.
FirstCells(f, hit) == [col \in hit |-> ColumnValues(f, col)[1]]

\* subject_notes (branch "subject") or activities (branch "activity").
esi_remarks(f, branch) ==
  FirstCells(f, {col \in {f.cols[j] : j \in 1..Len(f.cols)} :
                   RemarkBranch(f, col) = branch
                   /\ ColumnValues(f, col) # << >>})

FirstCellOr(f, hit, default) ==
  IF hit = {} THEN default ELSE ColumnValues(f, AnyOf(hit))[1]

esi_career(f) ==
  FirstCellOr(f, {col \in {f.cols[j] : j \in 1..Len(f.cols)} :
                    RemarkBranch(f, col) = "career"
                    /\ ColumnValues(f, col) # << >>},
              Mijeong)

\* The role the elif chain gives a grades column whose label prints col_str.
RoleOfText(col_str) ==
  IF Contains(Hakgi, col_str) THEN "semester"
  ELSE IF Contains(Gwamok, col_str) THEN "subject"
  ELSE IF Contains(Wonjeomsu, col_str) THEN "raw_score"
  ELSE IF Contains(Seokchadeunggeup, col_str) THEN "grade"
  ELSE IF Contains(Hakjeomsu, col_str) THEN "credit"
  ELSE "none"

ColumnRole(col) == RoleOfText(Str(col))

LastOrZero(at) == IF at = {} THEN 0 ELSE SetMax(at)

\* The position of the column bound to a role (the last label with that role
\* wins), 0 for None.
RoleColumn(cols, role) ==
  LastOrZero({j \in 1..Len(cols) : ColumnRole(cols[j]) = role})

\* float() of the cell at column col of the row, with the value the code
\* keeps when the column is None, the cell missing or float() raises.
esi_number(row, col, split, default) ==
  IF col # 0 /\ NotNA(row[col])
     /\ ParseFloat(IF split THEN SplitFirst(Strip(Str(row[col])), "/")
                   ELSE Strip(Str(row[col]))).ok
  THEN ParseFloat(IF split THEN SplitFirst(Strip(Str(row[col])), "/")
                  ELSE Strip(Str(row[col]))).v
  ELSE default

\* What the loop body does with a row, given the columns bound to the roles.
esi_cells(row, semester_col, subject_col, raw_score_col, grade_col, credit_col) ==
  IF semester_col # 0 /\ subject_col # 0
     /\ NotNA(row[semester_col]) /\ NotNA(row[subject_col])
  THEN [semester |-> Strip(Str(row[semester_col])),
        subject |-> Strip(Str(row[subject_col])),
        stored |-> Strip(Str(row[semester_col])) \in {One, Two}
                   /\ esi_number(row, grade_col, FALSE, 0) > 0,
        info |-> [raw_score |-> esi_number(row, raw_score_col, TRUE, 0),
                  rank |-> esi_number(row, grade_col, FALSE, 0),
                  credit |-> esi_number(row, credit_col, FALSE, 1)]]
  ELSE [semester |-> NA, subject |-> NA, stored |-> FALSE,
        info |-> [raw_score |-> 0, rank |-> 0, credit |-> 1]]

\* One row of the grades frame: whether it is stored, and what is stored.
esi_row(cols, row) ==
  esi_cells(row, RoleColumn(cols, "semester"), RoleColumn(cols, "subject"),
            RoleColumn(cols, "raw_score"), RoleColumn(cols, "grade"),
            RoleColumn(cols, "credit"))

esi_store(d, r, semester) ==
  IF r.stored /\ r.semester = semester THEN Put(d, r.subject, r.info) ELSE d

RECURSIVE esi_grades(_, _, _)
\* semester_grades[semesterN]['grades'] after the loop over grades.iterrows().
esi_grades(cols, rows, semester) ==
  IF rows = << >> THEN EmptyDict
  ELSE esi_store(esi_grades(cols, SubSeq(rows, 1, Len(rows) - 1), semester),
                 esi_row(cols, rows[Len(rows)]), semester)

\* sum(score * credit) / sum(credit) over the subjects `keys`, 0 without
\* subjects or without credit.
esi_weighted(grades_dict, keys) ==
  IF keys # {} /\ SumOver(grades_dict, keys, "credit") > 0
  THEN Frac(SumProduct(grades_dict, keys, "raw_score", "credit"),
            SumOver(grades_dict, keys, "credit"))
  ELSE Zero

esi_average(grades_dict) ==
  [total |-> esi_weighted(grades_dict, DOMAIN grades_dict),
   main_subjects |->
     esi_weighted(grades_dict,
                  {s \in DOMAIN grades_dict : s \in main_subjects})]

\* The total of two semester averages.
esi_total(a1, a2) ==
  IF IsPositive(a1) /\ IsPositive(a2) THEN Mean2(a1, a2)
  ELSE IF IsPositive(a1) THEN a1
  ELSE IF IsPositive(a2) THEN a2
  ELSE Zero

\* semester_grades, from the two grade dicts and their averages.
esi_records(g1, g2, a1, a2) ==
  [semester1 |-> [grades |-> g1, average |-> a1],
   semester2 |-> [grades |-> g2, average |-> a2],
   total |-> [average |->
                [total |-> esi_total(a1.total, a2.total),
                 main_subjects |->
                   esi_total(a1.main_subjects, a2.main_subjects)]]]

esi_semesters(g1, g2) ==
  esi_records(g1, g2, esi_average(g1), esi_average(g2))

\* student_info, from the remarks and the grade records.
esi_student_info(subject_notes, activities, career, records) ==
  [ok |-> TRUE,
   special_notes |-> [subjects |-> subject_notes, activities |-> activities,
                      career |-> career],
   academic_records |-> records,
   career_aspiration |-> career]

extract_student_info(special_notes, grades) ==
  esi_student_info(
    IF IsEmptyFrame(special_notes) THEN EmptyDict
    ELSE esi_remarks(special_notes, "subject"),
    IF IsEmptyFrame(special_notes) THEN EmptyDict
    ELSE esi_remarks(special_notes, "activity"),
    IF IsEmptyFrame(special_notes) THEN Mijeong ELSE esi_career(special_notes),
    IF IsEmptyFrame(grades) THEN esi_semesters(EmptyDict, EmptyDict)
    ELSE esi_semesters(esi_grades(grades.cols, grades.rows, One),
                       esi_grades(grades.cols, grades.rows, Two)))

(* -------------------- analyze_grades (src/utils.py) ------------------- *)

ag_main_subjects == {Gugeo, Yeongeo, Suhak, Sahoe, Gwahak}

ag_all_subjects == ag_main_subjects \cup {Hanguksa, Jeongbo}

\* grade_data[label]: the position of the column, 0 for KeyError.
ColumnAt(f, label) ==
  IF ColumnsNamed(f, label) = {} THEN 0 ELSE SetMin(ColumnsNamed(f, label))

\* Series == n.  pandas types a column of numerals as numbers, and then a cell
\* equals n when its numeral does; in a column that holds any other text the
\* cells stay strings and none equals a number.
SeriesEquals(f, j, i, n) ==
  /\ \A k \in 1..Len(f.rows) :
       NotNA(f.rows[k][j]) => ParseFloat(f.rows[k][j]).ok
  /\ NotNA(f.rows[i][j])
  /\ ParseFloat(f.rows[i][j]).v = n

\* What the loop body reads from a counted row.
ag_entry(row, subj, rank, cred) ==
  [subject |-> row[subj],
   grade |-> ParseFloat(row[rank]),
   credits |-> IF NotNA(row[cred]) THEN ParseFloat(row[cred])
               ELSE [ok |-> TRUE, v |-> 1]]

ag_entries(f, at, subj, rank, cred) ==
  [k \in 1..Len(at) |-> ag_entry(f.rows[at[k]], subj, rank, cred)]

ag_select(f, n, sem, subj, rank, cred) ==
  ag_entries(f,
             Increasing({i \in 1..Len(f.rows) :
                           /\ SeriesEquals(f, sem, i, n)
                           /\ NotNA(f.rows[i][rank])
                           /\ f.rows[i][subj] \in ag_all_subjects}),
             subj, rank, cred)

\* The rows of semester n that the loop counts, with the float() results.
ag_counted(f, n) ==
  ag_select(f, n, ColumnAt(f, HakGiSpaced), ColumnAt(f, GwaMokSpaced),
            ColumnAt(f, Seokchadeunggeup), ColumnAt(f, Hakjeomsu))

RECURSIVE ag_dict(_)
\* analysis_result[semester]['과목별_등급']
ag_dict(counted) ==
  IF counted = << >> THEN EmptyDict
  ELSE Put(ag_dict(SubSeq(counted, 1, Len(counted) - 1)),
           counted[Len(counted)].subject,
           [deunggeup |-> counted[Len(counted)].grade.v,
            hakjeomsu |-> counted[Len(counted)].credits.v])

ag_term(c, kind) ==
  CASE kind = "weighted" -> c.grade.v * c.credits.v
    [] kind = "credits" -> c.credits.v
    [] kind = "grades" -> c.grade.v

RECURSIVE ag_sum(_, _)
\* The running sums of the loop: kind "weighted" grade * credits,
\* "credits" credits, "grades" grade.
ag_sum(counted, kind) ==
  IF counted = << >> THEN 0
  ELSE ag_sum(SubSeq(counted, 1, Len(counted) - 1), kind)
       + ag_term(counted[Len(counted)], kind)

\* round(total / count, 2) if count > 0, else the initial 0.
ag_rounded(total, count) ==
  IF count > 0 THEN Round2(Frac(total, count)) ELSE Zero

\* One semester's entry: 과목별_등급, 가중_평균, 단순_평균.
ag_semester(counted) ==
  [gwamokbyeol_deunggeup |-> ag_dict(counted),
   gajung_pyeonggyun |->
     ag_rounded(ag_sum(counted, "weighted"), ag_sum(counted, "credits")),
   dansun_pyeonggyun |-> ag_rounded(ag_sum(counted, "grades"), Len(counted))]

\* round(sum(grades) / len(grades), 2) over the entries k1 of d1 and k2 of d2.
ag_pooled(d1, k1, d2, k2) ==
  ag_rounded(SumOver(d1, k1, "deunggeup") + SumOver(d2, k2, "deunggeup"),
             Cardinality(k1) + Cardinality(k2))

ag_overall(d1, d2, subjects) ==
  ag_pooled(d1, DOMAIN d1 \cap subjects, d2, DOMAIN d2 \cap subjects)

ag_result(s1, s2) ==
  [raised |-> FALSE,
   semester1 |-> s1,
   semester2 |-> s2,
   jeonche |->
     [juyogwamok_pyeonggyun |->
        ag_overall(s1.gwamokbyeol_deunggeup, s2.gwamokbyeol_deunggeup,
                   ag_main_subjects),
      jeonchegwamok_pyeonggyun |->
        ag_overall(s1.gwamokbyeol_deunggeup, s2.gwamokbyeol_deunggeup,
                   ag_all_subjects)]]

ag_checked(c1, c2) ==
  IF \E k \in 1..Len(c1 \o c2) :
       ~(c1 \o c2)[k].grade.ok \/ ~(c1 \o c2)[k].credits.ok
  THEN [raised |-> TRUE]                           \* float(): ValueError
  ELSE ag_result(ag_semester(c1), ag_semester(c2))

analyze_grades(grade_data) ==
  IF \E label \in {HakGiSpaced, GwaMokSpaced, Seokchadeunggeup, Hakjeomsu} :
       ColumnAt(grade_data, label) = 0
  THEN [raised |-> TRUE]                           \* KeyError
  ELSE ag_checked(ag_counted(grade_data, 1), ag_counted(grade_data, 2))

(* ------- calculate_average_grade (src/analysis/grade_calculator.py) ---- *)

\* total_credit_grade / total_credits, rounded.
cag_divide(total_credit_grade, total_credits) ==
  IF total_credits = 0 THEN [raised |-> TRUE]      \* ZeroDivisionError
  ELSE [raised |-> FALSE,
        value |-> Round2(Frac(total_credit_grade, total_credits))]

\* The sums over the subjects k1 of semester 1 and k2 of semester 2.
cag_sums(d1, k1, d2, k2) ==
  cag_divide(SumProduct(d1, k1, "deunggeup", "isudanwi")
             + SumProduct(d2, k2, "deunggeup", "isudanwi"),
             SumOver(d1, k1, "isudanwi") + SumOver(d2, k2, "isudanwi"))

\* The average over every subject, 정보 too.
calculate_average_grade_all(grades_data) ==
  cag_sums(grades_data.semester1, DOMAIN grades_data.semester1,
           grades_data.semester2, DOMAIN grades_data.semester2)

\* grades_data: [semester1, semester2], each a dict
\* subject -> [deunggeup (등급), isudanwi (이수단위)].
calculate_average_grade(grades_data) ==
  cag_sums(grades_data.semester1, DOMAIN grades_data.semester1 \ {Jeongbo},
           grades_data.semester2, DOMAIN grades_data.semester2 \ {Jeongbo})

\* grade_calculator.analyze_grades(grades_data): the average it prints, or
\* the exception of the division; it returns nothing.
gc_analyze_grades(grades_data) ==
  cag_sums(grades_data.semester1,
           {subject \in DOMAIN grades_data.semester1 : subject # Jeongbo},
           grades_data.semester2,
           {subject \in DOMAIN grades_data.semester2 : subject # Jeongbo})

(* ------------------- credit-adjusted grade (src/app.py) ---------------- *)

\* The adjustment without its lower limit.
credit_adjusted_unbounded(g, c) ==
  IF g > 0 /\ IsPositive(c)
  THEN Frac(5 * g * c[2] - (c[1] - c[2]), 5 * c[2])
  ELSE Zero

\* The bar of one subject in the chart of credit-adjusted grades, for the
\* grade g (a whole number) and the credit c (a fraction):
\* max(1, g - (c - 1) * 0.2) when both are above 0, and 0 ("N/A") otherwise.
credit_adjusted(g, c) ==
  IF g > 0 /\ IsPositive(c)
  THEN IF 5 * g * c[2] - (c[1] - c[2]) < 5 * c[2] THEN Frac(1, 1)
       ELSE Frac(5 * g * c[2] - (c[1] - c[2]), 5 * c[2])
  ELSE Zero

(* ------------------ analyze_with_claude (src/analyzer.py) -------------- *)

\* What the environment holds for ANTHROPIC_API_KEY: a key, none, or none
\* and no secrets file either (reading st.secrets raises).
ApiKeys == {"set", "missing", "secrets_error"}

\* What requests.post does: it raises; it returns status 200 with a content
\* list of text items, with a JSON body without "content", or with a body
\* that response.json() or the loop over the items raises on; or it returns
\* another status.
PostOutcomes == {"raises", "ok_text", "ok_no_content", "ok_bad_body", "not_200"}

\* analyze_with_claude(prompt) in an environment with the API key `key`,
\* where the direct request does `direct` and the standard client, called in
\* the except branch of the direct call, does `fallback` (a message with
\* content, one without, or an exception): what it returns, the direct
\* requests it made, the client calls it made, and the user messages sent
\* (the prompt in the direct request, a literal text in the client call).
analyze_with_claude(prompt, key, direct, fallback) ==
  IF key # "set"
  THEN [returned |-> "str",
        text |-> IF key = "missing" THEN "no_key" ELSE "error",
        posts |-> << >>, fallbacks |-> << >>, sent |-> << >>]
  ELSE IF direct \in {"raises", "ok_bad_body"}
  THEN [returned |-> "str",
        text |-> CASE fallback = "text" -> "result_text"
                   [] fallback = "no_content" -> "no_content"
                   [] fallback = "raises" -> "api_error",
        posts |-> <<direct>>, fallbacks |-> <<fallback>>,
        sent |-> <<prompt, <<"haksaeng", "deiteo", "bunseok">> >>]
  ELSE [returned |-> "str",
        text |-> CASE direct = "ok_text" -> "result_text"
                   [] direct = "ok_no_content" -> "no_content"
                   [] direct = "not_200" -> "api_error",
        posts |-> <<direct>>, fallbacks |-> << >>, sent |-> <<prompt>>]

(* ----------------- analyze_student_record (src/analyzer.py) ------------ *)

\* analysis_prompt, the text of the one user message of the request: a
\* literal of the function.
AnalysisPrompt == <<"Analyze", "student", "data">>

\* The request is sent without looking for the key first.
analyze_student_record_eager(student_data, key, outcome) ==
  [raised |-> FALSE,
   analysis |-> CASE key = "missing" -> "no_key"
                  [] key = "secrets_error" -> "failed"
                  [] outcome = "ok_text" -> "result_text"
                  [] outcome = "ok_no_content" -> "no_content"
                  [] outcome = "not_200" -> "api_error"
                  [] outcome = "raises_codec" -> "dummy_analysis"
                  [] OTHER -> "error",
   requests |-> <<AnalysisPrompt>>]

\* analyze_student_record(student_data) in an environment with the API key
\* `key`, where the request does `outcome` (one of PostOutcomes, or an
\* exception whose text names a codec): the dict it returns, under
\* "analysis", and the user messages of the requests it sent.
analyze_student_record(student_data, key, outcome) ==
  IF key # "set"
  THEN [raised |-> FALSE,
        analysis |-> IF key = "missing" THEN "no_key" ELSE "failed",
        requests |-> << >>]
  ELSE [raised |-> FALSE,
        analysis |-> CASE outcome = "ok_text" -> "result_text"
                       [] outcome = "ok_no_content" -> "no_content"
                       [] outcome = "not_200" -> "api_error"
                       [] outcome = "raises_codec" -> "dummy_analysis"
                       [] OTHER -> "error",
        requests |-> <<AnalysisPrompt>>]

(* -------------------- the upload flow (src/app.py) --------------------- *)

\* student_info is what the last upload showed when the file gives nothing.
puf_student_info_kept(file) ==
  IF ~process_csv_file(file).ok /\ result.by = "main"
     /\ result.value.student_info.returned = "dict"
  THEN result.value.student_info.record
  ELSE process_csv_file(file)

\* student_info = process_csv_file(uploaded_file)
puf_student_info(file) == process_csv_file(file)

\* process_uploaded_file(uploaded_file): None with st.error when the bytes
\* are not UTF-8, else the record with the text of the analysis under
\* "ai_analysis".
process_uploaded_file(uploaded_file, key, outcome) ==
  IF ~uploaded_file.decodes
  THEN [returned |-> "None", requests |-> << >>, messages |-> {"error"}]
  ELSE [returned |-> "dict",
        record |-> puf_student_info(uploaded_file.lines),
        ai_analysis |->
          analyze_student_record(puf_student_info(uploaded_file.lines),
                                 key, outcome).analysis,
        requests |->
          analyze_student_record(puf_student_info(uploaded_file.lines),
                                 key, outcome).requests,
        messages |-> {}]

\* main() once a file is uploaded, in an environment with the API key `key`
\* where the request does `outcome`: student_info = process_uploaded_file(..)
\* and what is put on the page for it: a warning for None; else the four
\* tabs, the first filled from the keys that are there, and the others when
\* student_info['academic_records'] exists, st.error (KeyError) when not.
main(uploaded_file, key, outcome) ==
  [student_info |-> process_uploaded_file(uploaded_file, key, outcome),
   shown |->
     IF process_uploaded_file(uploaded_file, key, outcome).returned = "None"
     THEN process_uploaded_file(uploaded_file, key, outcome).messages
          \cup {"warning"}
     ELSE IF process_uploaded_file(uploaded_file, key, outcome).record.ok
     THEN {"tabs", "original", "grades", "remarks", "ai"}
     ELSE {"tabs", "original", "error"}]

(* ------------------------------ inputs -------------------------------- *)

\* A course row as the school export writes it:
\* <<학 기, 교 과, 과 목, 학점수, 원점수/과목평균 (표준편차), 성취도 (수강자수), 석차등급>>
CoursePool ==
  { <<One, Gugeo, Gugeo, <<"1">>, <<"8", "5", "/", "7", "0">>, <<"B">>, <<"2">> >>,
    <<One, Suhak, Suhak, <<"3">>, <<"7", "0", "/", "6", "0">>, <<"C">>, <<"4">> >>,
    <<One, Cheyuk, Cheyuk, <<"1">>, <<"9", "0", "/", "8", "0">>, <<"A">>, <<"1">> >>,
    <<One, Gwahak, MullihakI, <<"3">>,
      <<"9", "2", "/", "7", "8", "(", "1", "0", ".", "1", ")">>,
      <<"A", "(", "1", "2", "0", ")">>, <<"2">> >>,
    <<One, Hanguksa, Hanguksa, <<"2">>, <<"8", "0", "/", "7", "5">>, <<"B">>, <<"3">> >>,
    <<One, Yeongeo, Yeongeo, <<"2">>, <<"6", "0", "/", "5", "0">>, <<"C">>, <<"0">> >>,
    <<Two, Gugeo, Gugeo, <<"2">>, <<"9", "5", "/", "7", "0">>, <<"A">>, <<"1">> >>,
    <<Two, Suhak, Suhak, <<"1">>, <<"5", "0", "/", "6", "0">>, <<"P">>, <<"P">> >>,
    <<Two, Gwahak, Gwahak, <<"1">>, <<"7", "5", "/", "6", "0">>, <<"B">>, NA>> }

RECURSIVE SeqsUpTo(_, _)
\* The sequences of distinct members of S of length at most n.
SeqsUpTo(S, n) ==
  IF n = 0 THEN {<< >>}
  ELSE LET shorter == SeqsUpTo(S, n - 1)
       IN  shorter \cup
           {Append(q, x) : <<q, x>> \in
              {y \in shorter \X S : \A i \in 1..Len(y[1]) : y[1][i] # y[2]}}

\* 학년/반/번호/이름 are represented by one identity column.
HeaderRow == <<<<"i", "reum">>, Gugeo, Suhak, Jayul, Jinro, Jinrohuimang, Cheyuk>>

RemarkGugeo == <<"seong", "sil">>
CareerText == <<"gae", "bal", "ja">>

NotesRowA == <<<<"kim">>, RemarkGugeo, NA, <<"bong", "sa">>, NA, CareerText, NA>>
NotesRowB == <<NA, NA, <<"kkom", "kkom">>, NA, <<"tam", "saek">>, NA, NA>>


\* The label row that opens the grades block of a file, by kind.
LabelRow(label) ==
  CASE label = "spaced" ->
         <<HakGiSpaced, GyoGwaSpaced, GwaMokSpaced, Hakjeomsu,
           WonjeomsuGwamokPyeonggyun, Seongchwido, Seokchadeunggeup>>
    [] label = "plain" ->
         <<Hakgi, Gwamok, Hakjeomsu, WonjeomsuGwamokPyeonggyun, Seongchwido,
           Seokchadeunggeup, NA>>
    [] label = "short" ->
         <<Hakgi, Gwamok, Hakjeomsu, Wonjeomsu, Seongchwido,
           Seokchadeunggeup, NA>>


\* A course as a row under the label row: all seven columns under the spaced
\* labels, and without the 교 과 column otherwise.
CourseRow(label, c) ==
  IF label = "spaced" THEN c
  ELSE <<c[1], c[3], c[4], c[5], c[6], c[7], NA>>

CourseRows(label, courses) ==
  [i \in 1..Len(courses) |-> CourseRow(label, courses[i])]

\* The rows of the uploaded CSV.
CsvFile(in) ==
  (IF in.title
   THEN << <<<<"saeng", "hwal", "gi", "rok", "bu">>, NA, NA, NA, NA, NA, NA>> >>
   ELSE << >>)
  \o <<HeaderRow>> \o in.notes
  \o (IF in.label = "none" THEN << >> ELSE <<LabelRow(in.label)>>)
  \o CourseRows(in.label, in.courses)

\* The two frames of a caller that read the remarks and the grades table
\* itself, each with its label row as the column labels.
NotesFrame(in) == Frame(HeaderRow, in.notes)

LabelWidth(label) == IF label = "spaced" THEN 7 ELSE 6

GradesFrame(in) ==
  Frame(Take(LabelRow(in.label), LabelWidth(in.label)),
        [i \in 1..Len(in.courses) |->
           Take(CourseRow(in.label, in.courses[i]), LabelWidth(in.label))])

\* The grades DataFrame utils.analyze_grades indexes: grade_columns labels.
GradeTable(in) == Frame(grade_columns, in.courses)

GradesEntry(d, c, semester) ==
  IF c[1] = semester /\ ParseFloat(c[7]).ok /\ ParseFloat(c[4]).ok
  THEN Put(d, c[3], [deunggeup |-> ParseFloat(c[7]).v,
                     isudanwi |-> ParseFloat(c[4]).v])
  ELSE d

RECURSIVE GradesDict(_, _)
\* The dict grade_calculator reads for one semester: the courses with a
\* numeric 등급 and 이수단위, by subject.
GradesDict(courses, semester) ==
  IF courses = << >> THEN EmptyDict
  ELSE GradesEntry(GradesDict(SubSeq(courses, 1, Len(courses) - 1), semester),
                   courses[Len(courses)], semester)

GradesData(in) ==
  [semester1 |-> GradesDict(in.courses, One),
   semester2 |-> GradesDict(in.courses, Two)]

Inputs ==
  LET lists == SeqsUpTo(CoursePool, MaxCourses)
      NoteBlocks == {<< >>, <<NotesRowA>>, <<NotesRowA, NotesRowB>>}
      LabelKinds == {"spaced", "plain", "short", "none"}
  IN  {[kind |-> "csv", title |-> t, notes |-> n, label |-> l, courses |-> cs] :
         <<t, n>> \in ({FALSE} \X NoteBlocks) \cup {<<TRUE, <<NotesRowA>> >>},
         l \in LabelKinds, cs \in lists}
      \cup
      {[kind |-> "frames", title |-> FALSE, notes |-> n, label |-> l,
        courses |-> cs] :
         n \in NoteBlocks, l \in LabelKinds \ {"none"}, cs \in lists}
      \cup
      {[kind |-> k, title |-> FALSE, notes |-> << >>, label |-> "spaced",
        courses |-> cs] :
         k \in {"grade_table", "grades_data"}, cs \in lists}

\* Course rows with the cells a hand-edited export can carry: a semester
\* cell with blanks around it, one that names no semester, a missing semester,
\* subject, credit or score cell, a credit or score that is no number, and
\* the same subject twice in one semester.
RowPool ==
  { << <<" ", "1", " ">>, Sahoe, Sahoe, <<"2">>, <<"8", "0", "/", "7", "5">>,
       <<"B">>, <<"3">> >>,
    << <<"3">>, Eumak, Eumak, <<"1">>, <<"9", "0", "/", "8", "0">>, <<"A">>,
       <<"1">> >>,
    <<NA, Misul, Misul, <<"1">>, <<"9", "0", "/", "8", "0">>, <<"A">>, <<"2">> >>,
    <<One, Gwahak, NA, <<"2">>, <<"7", "0", "/", "6", "0">>, <<"C">>, <<"4">> >>,
    <<Two, Yeongeo, Yeongeo, NA, <<"8", "0", "/", "7", "5">>, <<"B">>, <<"3">> >>,
    <<Two, Jeongbo, Jeongbo, <<"-">>, <<"6", "0", "/", "5", "0">>, <<"C">>,
      <<"5">> >>,
    <<One, Gugeo, Gugeo, <<"1">>, <<"8", "5", "/", "7", "0">>, <<"B">>, <<"2">> >>,
    <<One, Gugeo, Gugeo, <<"1">>, <<"-", "/", "7", "0">>, <<"B">>, <<"3">> >>,
    <<One, Gugeo, Gugeo, <<"2">>, NA, <<"A">>, <<"1">> >>,
    <<Two, Suhak, Suhak, <<"3">>, <<"7", "0", "/", "6", "0">>, <<"C">>, <<"4">> >> }

\* Uploads of such rows, in the layouts each function is written for.
RowInputs ==
  LET lists == SeqsUpTo(RowPool, MaxCourses)
  IN  {[kind |-> "csv", title |-> FALSE, notes |-> n, label |-> l,
        courses |-> cs] :
         <<n, l>> \in {<< <<NotesRowA>>, "plain">>, << <<NotesRowA>>, "short">>,
                       << <<NotesRowA, NotesRowB>>, "plain">>},
         cs \in lists}
      \cup
      {[kind |-> "frames", title |-> FALSE, notes |-> <<NotesRowA>>,
        label |-> l, courses |-> cs] :
         l \in {"plain", "short"}, cs \in lists}
      \cup
      {[kind |-> k, title |-> FALSE, notes |-> << >>, label |-> "spaced",
        courses |-> cs] :
         k \in {"grade_table", "grades_data"}, cs \in lists}

\* The uploads of a session: no course or one 국어 course, in each kind.
SessionInputs ==
  {in \in Inputs :
     /\ in.title = FALSE
     /\ in.label \in {"short", "spaced"}
     /\ in.notes \in {<< >>, <<NotesRowA>>}
     /\ in.kind \in {"csv", "frames"} => in.notes # << >> /\ in.label = "short"
     /\ Len(in.courses) <= 1
     /\ \A i \in 1..Len(in.courses) : in.courses[i][3] = Gugeo}

\* The files uploaded to the page: a grid with 국어 courses, a grid of the
\* header line only, an empty file, and bytes that are not UTF-8.
UploadInputs ==
  {[kind |-> "upload", content |-> "rows", title |-> FALSE,
    notes |-> <<NotesRowA>>, label |-> "short", courses |-> cs] :
     cs \in SeqsUpTo({c \in CoursePool : c[3] = Gugeo}, MaxCourses)}
  \cup
  {[kind |-> "upload", content |-> k, title |-> FALSE, notes |-> << >>,
    label |-> "none", courses |-> << >>] :
     k \in {"rows", "empty", "not_utf8"}}

\* The uploaded file: whether its bytes decode as UTF-8, and its lines, none
\* when it is empty.
UploadedFile(in) ==
  [decodes |-> in.content # "not_utf8",
   lines |-> IF in.content = "rows" THEN CsvFile(in) ELSE << >>]

\* What the functions called beside the upload flow are given: the dicts of
\* grade_calculator (of courses with 정보 among them), a grade and a credit
\* of the chart, a prompt, a record.
ToolInputs ==
  {[kind |-> "grades_data", courses |-> cs] :
     cs \in SeqsUpTo(
              { <<One, Gugeo, Gugeo, <<"1">>, NA, NA, <<"2">> >>,
                <<One, Suhak, Suhak, <<"2">>, NA, NA, <<"3">> >>,
                <<One, Jeongbo, Jeongbo, <<"2">>, NA, NA, <<"5">> >>,
                <<Two, Jeongbo, Jeongbo, <<"1">>, NA, NA, <<"1">> >>,
                <<Two, Yeongeo, Yeongeo, <<"3">>, NA, NA, <<"4">> >> },
              MaxCourses)}
  \cup
  {[kind |-> "chart", g |-> g, c |-> c] :
     g \in 0..9, c \in {Zero, Frac(1, 2), Frac(1, 1), Frac(2, 1), Frac(3, 1),
                        Frac(4, 1), Frac(9, 2), Frac(50, 1)}}
  \cup
  {[kind |-> "prompt", prompt |-> p] : p \in {RemarkGugeo, CareerText}}
  \cup
  {[kind |-> "student_data", data |-> process_csv_file(UploadedFile(u).lines)] :
     u \in UploadInputs}

(* --------------------------- state machine ---------------------------- *)

NoFrames == [raised |-> FALSE, main_data |-> EmptyFrame, grade_data |-> EmptyFrame]

NoResult == [by |-> "none"]

\* The uploads handled so far: how many, the first one that was completed as
\* <<input, result>> (<< >> before that), and whether a different upload was
\* completed after it.
NoSession == [uploads |-> 1, first |-> << >>, other |-> FALSE]

\* preprocess_csv(file): the two frames, or the exception it raises.
PreprocessCsv ==
  /\ pc = "ready"
  /\ input.kind = "csv"
  /\ frames' = preprocess_csv(CsvFile(input))
  /\ pc' = IF frames'.raised THEN "raised" ELSE "preprocessed"
  /\ result' = IF frames'.raised THEN [by |-> "preprocess_csv"] ELSE result
  /\ UNCHANGED <<input, session>>

\* extract_student_info(*preprocess_csv(file))
ExtractStudentInfo ==
  /\ pc = "preprocessed"
  /\ result' = [by |-> "extract_student_info",
                value |-> extract_student_info(frames.main_data,
                                               frames.grade_data)]
  /\ pc' = "done"
  /\ UNCHANGED <<input, frames, session>>

\* extract_student_info(special_notes, grades) on a caller's own frames.
ExtractFrames ==
  /\ pc = "ready"
  /\ input.kind = "frames"
  /\ frames' = [raised |-> FALSE, main_data |-> NotesFrame(input),
                grade_data |-> GradesFrame(input)]
  /\ result' = [by |-> "extract_student_info",
                value |-> extract_student_info(NotesFrame(input),
                                               GradesFrame(input))]
  /\ pc' = "done"
  /\ UNCHANGED <<input, session>>

\* process_csv_file(file_path)
ProcessCsvFile ==
  /\ pc = "ready"
  /\ input.kind = "csv"
  /\ result' = [by |-> "process_csv_file",
                value |-> process_csv_file(CsvFile(input))]
  /\ pc' = "done"
  /\ UNCHANGED <<input, frames, session>>

\* utils.analyze_grades(grade_data)
AnalyzeGrades ==
  /\ pc = "ready"
  /\ input.kind = "grade_table"
  /\ result' = [by |-> "analyze_grades",
                value |-> analyze_grades(GradeTable(input))]
  /\ pc' = IF result'.value.raised THEN "raised" ELSE "done"
  /\ UNCHANGED <<input, frames, session>>

\* grade_calculator.calculate_average_grade(grades_data)
CalculateAverageGrade ==
  /\ pc = "ready"
  /\ input.kind = "grades_data"
  /\ result' = [by |-> "calculate_average_grade",
                value |-> calculate_average_grade(GradesData(input))]
  /\ pc' = IF result'.value.raised THEN "raised" ELSE "done"
  /\ UNCHANGED <<input, frames, session>>

Next ==
  \/ PreprocessCsv
  \/ ExtractStudentInfo
  \/ ExtractFrames
  \/ ProcessCsvFile
  \/ AnalyzeGrades
  \/ CalculateAverageGrade

Spec ==
  /\ input \in Inputs /\ pc = "ready" /\ frames = NoFrames
  /\ result = NoResult /\ session = NoSession
  /\ [][Next]_vars

\* The same functions on uploads of hand-edited rows.
RowSpec ==
  /\ input \in RowInputs /\ pc = "ready" /\ frames = NoFrames
  /\ result = NoResult /\ session = NoSession
  /\ [][Next]_vars

\* grade_calculator.analyze_grades(grades_data)
GcAnalyzeGrades ==
  /\ pc = "ready"
  /\ input.kind = "grades_data"
  /\ result' = [by |-> "gc_analyze_grades",
                value |-> gc_analyze_grades(GradesData(input))]
  /\ pc' = IF result'.value.raised THEN "raised" ELSE "done"
  /\ UNCHANGED <<input, frames, session>>

\* One bar of the chart of credit-adjusted grades.
CreditAdjusted ==
  /\ pc = "ready"
  /\ input.kind = "chart"
  /\ result' = [by |-> "credit_adjusted",
                value |-> credit_adjusted(input.g, input.c)]
  /\ pc' = "done"
  /\ UNCHANGED <<input, frames, session>>

\* analyzer.analyze_with_claude(prompt), whatever the API does.
AnalyzeWithClaude ==
  /\ pc = "ready"
  /\ input.kind = "prompt"
  /\ \E key \in ApiKeys, direct \in PostOutcomes,
        fallback \in {"text", "no_content", "raises"} :
       result' = [by |-> "analyze_with_claude",
                  value |-> analyze_with_claude(input.prompt, key, direct,
                                                fallback)]
  /\ pc' = "done"
  /\ UNCHANGED <<input, frames, session>>

\* analyzer.analyze_student_record(student_data), whatever the API does.
AnalyzeStudentRecord ==
  /\ pc = "ready"
  /\ input.kind = "student_data"
  /\ \E key \in ApiKeys, outcome \in PostOutcomes \cup {"raises_codec"} :
       result' = [by |-> "analyze_student_record",
                  env |-> [key |-> key, outcome |-> outcome],
                  value |-> analyze_student_record(input.data, key, outcome)]
  /\ pc' = IF result'.value.raised THEN "raised" ELSE "done"
  /\ UNCHANGED <<input, frames, session>>

\* The functions called beside the upload flow.
ToolSpec ==
  /\ input \in ToolInputs /\ pc = "ready" /\ frames = NoFrames
  /\ result = NoResult /\ session = NoSession
  /\ [][CalculateAverageGrade \/ GcAnalyzeGrades \/ CreditAdjusted
          \/ AnalyzeWithClaude \/ AnalyzeStudentRecord]_vars

\* main() of the page for the uploaded file, whatever the API does.
Main ==
  /\ pc = "ready"
  /\ input.kind = "upload"
  /\ \E key \in ApiKeys, outcome \in PostOutcomes \cup {"raises_codec"} :
       result' = [by |-> "main", value |-> main(UploadedFile(input), key, outcome)]
  /\ pc' = "done"
  /\ UNCHANGED <<input, frames, session>>

\* The caller handles the next upload once the last one was answered: the
\* functions are called afresh, and what the last call returned is still
\* around until the next answer replaces it.
UploadAgain ==
  /\ pc \in {"done", "raised"}
  /\ session.uploads < MaxUploads
  /\ input' \in IF input.kind = "upload" THEN UploadInputs ELSE SessionInputs
  /\ pc' = "ready"
  /\ frames' = NoFrames
  /\ session' = [uploads |-> session.uploads + 1,
                 first |-> IF session.first = << >> THEN <<input, result>>
                           ELSE session.first,
                 other |-> session.first # << >>
                           /\ (session.other \/ input # session.first[1])]
  /\ UNCHANGED result

SessionSpec ==
  /\ input \in SessionInputs /\ pc = "ready" /\ frames = NoFrames
  /\ result = NoResult /\ session = NoSession
  /\ [][Next \/ UploadAgain]_vars

\* The page over the files uploaded to it one after the other.
AppSpec ==
  /\ input \in UploadInputs /\ pc = "ready" /\ frames = NoFrames
  /\ result = NoResult /\ session = NoSession
  /\ [][Main \/ UploadAgain]_vars

TypeOK ==
  /\ pc \in {"ready", "preprocessed", "done", "raised"}
  /\ input.kind \in {"csv", "frames", "grade_table", "grades_data"}
  /\ Len(input.courses) <= MaxCourses
  /\ session.uploads \in 1..MaxUploads
  /\ result.by \in {"none", "preprocess_csv", "extract_student_info",
                    "process_csv_file", "analyze_grades",
                    "calculate_average_grade"}

(* ------------------------ expected quantities ------------------------- *)

\* A course row of the school export carries a rank grade: its 석차등급 cell
\* is a number above 0.
Graded(c) == ParseFloat(c[7]).ok /\ ParseFloat(c[7]).v > 0

\* The course rows of an upload without the ungraded ones, order kept.
GradedOnly(courses) == SelectSeq(courses, Graded)

WithoutUngraded(in) == [in EXCEPT !.courses = GradedOnly(in.courses)]

\* Every course row of the upload carries a rank grade.
AllGraded(in) == GradedOnly(in.courses) = in.courses

\* The graded courses of a semester, as positions in the list.
GradedIn(courses, semester) ==
  {i \in 1..Len(courses) : Graded(courses[i]) /\ courses[i][1] = semester}

RECURSIVE SumAt(_, _, _)
\* The sum over the positions `at` of rank (weight "one") or of
\* rank * credit (weight "credit") or of credit (weight "credits").
SumAt(courses, at, weight) ==
  IF at = {} THEN 0
  ELSE SumAt(courses, at \ {SetMax(at)}, weight)
       + (CASE weight = "one" -> ParseFloat(courses[SetMax(at)][7]).v
            [] weight = "credit" ->
                 ParseFloat(courses[SetMax(at)][7]).v
                 * ParseFloat(courses[SetMax(at)][4]).v
            [] weight = "credits" -> ParseFloat(courses[SetMax(at)][4]).v)

\* sum(rank_grade * credit_hours) / sum(credit_hours), 0 without credit.
WeightedAverage(courses, at) ==
  IF SumAt(courses, at, "credits") = 0 THEN Zero
  ELSE Frac(SumAt(courses, at, "credit"), SumAt(courses, at, "credits"))

\* mean(rank_grade), 0 for no course.
SimpleAverage(courses, at) ==
  IF at = {} THEN Zero ELSE Frac(SumAt(courses, at, "one"), Cardinality(at))

\* An upload laid out as process_csv_file reads it: labels on line 1, one
\* remarks line, the six-column label row, then the course rows.
FixedLayout(in) ==
  in.kind = "csv" /\ ~in.title /\ Len(in.notes) = 1
  /\ in.label \in {"plain", "short"}

\* The averages a result carries.
ProcessedAverages(v) ==
  <<v.academic_records.semester1.average, v.academic_records.semester2.average>>

ExtractedAverages(v) ==
  <<v.academic_records.semester1.average, v.academic_records.semester2.average,
    v.academic_records.total.average>>

AnalyzedAverages(v) ==
  IF v.raised THEN <<"raised">>
  ELSE <<v.semester1.gajung_pyeonggyun, v.semester1.dansun_pyeonggyun,
         v.semester2.gajung_pyeonggyun, v.semester2.dansun_pyeonggyun,
         v.jeonche>>

(* ------------------------------- claims ------------------------------- *)

\* C1 (process_csv_file): on an upload in the layout process_csv_file reads,
\* the per-semester averages are those of the same upload without the rows
\* whose rank grade is 0, missing or non-numeric.
UngradedRowsLeaveProcessedAverages ==
  (result.by = "process_csv_file" /\ FixedLayout(input))
    => ProcessedAverages(result.value)
       = ProcessedAverages(process_csv_file(CsvFile(WithoutUngraded(input))))

\* C1 (extract_student_info): the per-semester and total averages are those
\* of the same grades frame without the ungraded rows.
UngradedRowsLeaveExtractedAverages ==
  (result.by = "extract_student_info" /\ input.kind = "frames")
    => ExtractedAverages(result.value)
       = ExtractedAverages(
           extract_student_info(NotesFrame(WithoutUngraded(input)),
                                GradesFrame(WithoutUngraded(input))))

\* C1 (utils.analyze_grades): the averages are those of the same grades table
\* without the ungraded rows.
UngradedRowsLeaveAnalyzedAverages ==
  result.by = "analyze_grades"
    => AnalyzedAverages(result.value)
       = AnalyzedAverages(analyze_grades(GradeTable(WithoutUngraded(input))))

\* C1: a grade row whose rank grade is 0, missing or non-numeric never
\* contributes to an average of extract_student_info, of process_csv_file
\* with calculate_semester_average or of utils.analyze_grades: removing these
\* rows from the input leaves every per-semester and total average unchanged.
UngradedRowsNeverCount ==
  /\ UngradedRowsLeaveProcessedAverages
  /\ UngradedRowsLeaveExtractedAverages
  /\ UngradedRowsLeaveAnalyzedAverages

\* The graded courses of a semester whose subject is one of `subjects`.
GradedAmong(courses, semester, subjects) ==
  {i \in GradedIn(courses, semester) : courses[i][3] \in subjects}

\* A caller's frames with every grades column under its own label.
LabelledFrames(in) == in.kind = "frames" /\ in.label = "short"

\* C2 (extract_student_info): the average `total` of each semester is
\* sum(rank * credit) / sum(credit) over the graded courses of the semester.
ExtractedWeightedAverageIsOfRanks ==
  (result.by = "extract_student_info" /\ LabelledFrames(input))
    => /\ result.value.academic_records.semester1.average.total
          = WeightedAverage(input.courses, GradedIn(input.courses, One))
       /\ result.value.academic_records.semester2.average.total
          = WeightedAverage(input.courses, GradedIn(input.courses, Two))

\* C2 (utils.analyze_grades): 가중_평균 of each semester is
\* sum(rank * credit) / sum(credit) over the graded courses of the semester.
AnalyzedWeightedAverageIsOfRanks ==
  (result.by = "analyze_grades" /\ ~result.value.raised)
    => /\ result.value.semester1.gajung_pyeonggyun
          = WeightedAverage(input.courses, GradedIn(input.courses, One))
       /\ result.value.semester2.gajung_pyeonggyun
          = WeightedAverage(input.courses, GradedIn(input.courses, Two))

\* C2: for each semester the weighted average reported is
\* sum(rank_grade * credit_hours) / sum(credit_hours) over the graded courses
\* of the semester, and 0 when the total credit is zero.
WeightedAverageIsRankByCredit ==
  /\ ExtractedWeightedAverageIsOfRanks
  /\ AnalyzedWeightedAverageIsOfRanks

\* C3 (calculate_semester_average): when every course is graded, the average
\* `total` of each semester is the mean of rank over the courses of the
\* semester.
ProcessedSimpleAverageIsMean ==
  (result.by = "process_csv_file" /\ FixedLayout(input) /\ AllGraded(input))
    => /\ result.value.academic_records.semester1.average.total
          = SimpleAverage(input.courses, GradedIn(input.courses, One))
       /\ result.value.academic_records.semester2.average.total
          = SimpleAverage(input.courses, GradedIn(input.courses, Two))

\* C3 (utils.analyze_grades): when every course is graded, 단순_평균 of each
\* semester is the mean of rank over the courses of the semester, whatever
\* their subject.
AnalyzedSimpleAverageIsMean ==
  (result.by = "analyze_grades" /\ ~result.value.raised /\ AllGraded(input))
    => /\ result.value.semester1.dansun_pyeonggyun
          = SimpleAverage(input.courses, GradedIn(input.courses, One))
       /\ result.value.semester2.dansun_pyeonggyun
          = SimpleAverage(input.courses, GradedIn(input.courses, Two))

\* C3: for each semester the simple average is the arithmetic mean of
\* rank_grade over every graded course of the semester, whatever its subject,
\* and 0 if there is none.
SimpleAverageIsMeanOfRanks ==
  /\ ProcessedSimpleAverageIsMean
  /\ AnalyzedSimpleAverageIsMean

\* C4 (calculate_semester_average): the average `main_subjects` of each
\* semester is the mean of rank over the graded courses of the semester whose
\* subject is in {국어, 수학, 영어, 한국사, 사회, 과학, 정보}.
ProcessedMainAverageIsOverMainSet ==
  (result.by = "process_csv_file" /\ FixedLayout(input))
    => /\ result.value.academic_records.semester1.average.main_subjects
          = SimpleAverage(input.courses,
                          GradedAmong(input.courses, One, main_subjects))
       /\ result.value.academic_records.semester2.average.main_subjects
          = SimpleAverage(input.courses,
                          GradedAmong(input.courses, Two, main_subjects))

\* C4 (extract_student_info): the average `main_subjects` of each semester is
\* the credit-weighted mean of rank over the graded courses of the semester
\* whose subject is in the main-subject set.
ExtractedMainAverageIsOverMainSet ==
  (result.by = "extract_student_info" /\ LabelledFrames(input))
    => /\ result.value.academic_records.semester1.average.main_subjects
          = WeightedAverage(input.courses,
                            GradedAmong(input.courses, One, main_subjects))
       /\ result.value.academic_records.semester2.average.main_subjects
          = WeightedAverage(input.courses,
                            GradedAmong(input.courses, Two, main_subjects))

\* C4: the main-subject average of a semester is computed over exactly the
\* graded courses whose subject name is in {국어, 수학, 영어, 한국사, 사회,
\* 과학, 정보}: a course outside the set never changes it and every graded
\* course inside the set is counted.
MainAverageIsOverMainSet ==
  /\ ProcessedMainAverageIsOverMainSet
  /\ ExtractedMainAverageIsOverMainSet

\* The upload has no course with a rank grade.
NothingGraded(in) == GradedOnly(in.courses) = << >>

ZeroAverages == [total |-> Zero, main_subjects |-> Zero]

\* C5 (grade_calculator.calculate_average_grade): with no course in either
\* semester it returns 0 and does not raise.
EmptyAverageGradeIsZero ==
  (result.by = "calculate_average_grade"
   /\ GradesData(input).semester1 = EmptyDict
   /\ GradesData(input).semester2 = EmptyDict)
    => (~result.value.raised /\ result.value.value = Zero)

\* C5 (calculate_semester_average, extract_student_info): with no graded
\* course the averages of both semesters are 0.
EmptySemesterAveragesAreZero ==
  /\ (result.by = "process_csv_file" /\ FixedLayout(input)
      /\ NothingGraded(input))
       => /\ result.value.ok
          /\ result.value.academic_records.semester1.average = ZeroAverages
          /\ result.value.academic_records.semester2.average = ZeroAverages
  /\ (result.by = "extract_student_info" /\ LabelledFrames(input)
      /\ NothingGraded(input))
       => /\ result.value.academic_records.semester1.average = ZeroAverages
          /\ result.value.academic_records.semester2.average = ZeroAverages
          /\ result.value.academic_records.total.average = ZeroAverages

\* C5 (utils.analyze_grades): with no graded course it does not raise and
\* every average is 0.
EmptyAnalysisIsZero ==
  (result.by = "analyze_grades" /\ NothingGraded(input))
    => /\ ~result.value.raised
       /\ result.value.semester1.gajung_pyeonggyun = Zero
       /\ result.value.semester1.dansun_pyeonggyun = Zero
       /\ result.value.semester2.gajung_pyeonggyun = Zero
       /\ result.value.semester2.dansun_pyeonggyun = Zero

\* C5: every averaging function, called with a semester or a whole record
\* that has no graded course, returns zero averages and never raises.
EmptyInputGivesZeroAverages ==
  /\ EmptyAverageGradeIsZero
  /\ EmptySemesterAveragesAreZero
  /\ EmptyAnalysisIsZero

\* The total of two semester averages: their mean when both are non-zero,
\* the non-zero one when one is, 0 otherwise.
TotalOf(a1, a2) ==
  IF a1 # Zero /\ a2 # Zero THEN Mean2(a1, a2)
  ELSE IF a1 # Zero THEN a1
  ELSE a2

\* C6 (extract_student_info): both `total` averages follow the rule.
ExtractedTotalIsMeanOfSemesters ==
  result.by = "extract_student_info"
    => /\ result.value.academic_records.total.average.total
          = TotalOf(result.value.academic_records.semester1.average.total,
                    result.value.academic_records.semester2.average.total)
       /\ result.value.academic_records.total.average.main_subjects
          = TotalOf(
              result.value.academic_records.semester1.average.main_subjects,
              result.value.academic_records.semester2.average.main_subjects)

\* C6 (utils.analyze_grades): when every course is graded, 전체과목_평균
\* follows the rule on the two semesters' 단순_평균.
AnalyzedTotalIsMeanOfSemesters ==
  (result.by = "analyze_grades" /\ ~result.value.raised /\ AllGraded(input))
    => result.value.jeonche.jeonchegwamok_pyeonggyun
       = TotalOf(result.value.semester1.dansun_pyeonggyun,
                 result.value.semester2.dansun_pyeonggyun)

\* C6: the total average is the mean of the two semester averages when both
\* are non-zero, the single non-zero one when only one semester has graded
\* courses, and 0 when neither has.
TotalIsMeanOfSemesterAverages ==
  /\ ExtractedTotalIsMeanOfSemesters
  /\ AnalyzedTotalIsMeanOfSemesters

\* The course row [1, 과학, 물리학Ⅰ, 3, 92/78(10.1), A(120), 2].
PhysicsRow == CHOOSE c \in CoursePool : c[3] = MullihakI

\* The upload of the end-to-end scenario: a header row with 국어 and 진로희망,
\* one remarks row with a 국어 remark and a career text, the seven-column
\* label row and the 물리학Ⅰ row, with or without a title line on top.
ScenarioUpload(in) ==
  /\ in.kind = "csv"
  /\ in.notes = <<NotesRowA>>
  /\ in.label = "spaced"
  /\ in.courses = <<PhysicsRow>>

\* The record the scenario expects.
ScenarioRecord(v) ==
  /\ v.ok
  /\ Gugeo \in DOMAIN v.special_notes.subjects
  /\ v.special_notes.subjects[Gugeo] = RemarkGugeo
  /\ v.career_aspiration = CareerText
  /\ DOMAIN v.academic_records.semester1.grades = {MullihakI}
  /\ v.academic_records.semester1.grades[MullihakI]
     = [raw_score |-> 92, rank |-> 2, credit |-> 3]
  /\ v.academic_records.semester1.average.total = Frac(2, 1)

\* C7: on the scenario's upload the extraction path (preprocess_csv with
\* extract_student_info, or process_csv_file) returns a record with the 국어
\* remark, the career text as career_aspiration, semester 1 holding exactly
\* 물리학Ⅰ with raw_score 92, rank 2 and credit 3, and the semester-1 average 2.
EndToEndScenario ==
  (ScenarioUpload(input) /\ pc \in {"done", "raised"})
    => (pc = "done" /\ ScenarioRecord(result.value))

\* An upload with remarks and no semester-label row.
RemarksOnly(in) ==
  in.kind = "csv" /\ in.label = "none" /\ in.courses = << >>
  /\ in.notes # << >>

\* The remarks rows that fill column j of the upload.
FilledAt(in, j) == {i \in 1..Len(in.notes) : NotNA(in.notes[i][j])}

\* The dict d has, for every column of the upload labelled with one of
\* `labels` and filled by some remarks row, the first filled cell.
Populated(d, in, labels) ==
  \A j \in 1..Len(HeaderRow) :
    (HeaderRow[j] \in labels /\ FilledAt(in, j) # {})
      => /\ HeaderRow[j] \in DOMAIN d
         /\ d[HeaderRow[j]] = in.notes[SetMin(FilledAt(in, j))][j]

\* C8: for an upload without a semester-label row extraction does not raise
\* and returns a record with no grades in either semester and with the
\* subject and activity remarks of every known column that has a cell.
RemarksWithoutGrades ==
  (RemarksOnly(input) /\ pc \in {"done", "raised"})
    => /\ pc = "done"
       /\ result.value.ok
       /\ result.value.academic_records.semester1.grades = EmptyDict
       /\ result.value.academic_records.semester2.grades = EmptyDict
       /\ Populated(result.value.special_notes.subjects, input, subject_cols)
       /\ Populated(result.value.special_notes.activities, input,
                    activity_cols)

\* The record holds every graded course of the upload under its semester.
HoldsGraded(records, in) ==
  /\ \A i \in GradedIn(in.courses, One) :
       in.courses[i][3] \in DOMAIN records.semester1.grades
  /\ \A i \in GradedIn(in.courses, Two) :
       in.courses[i][3] \in DOMAIN records.semester2.grades

\* C9: under the label 학 기 and under the label 학기 alike, preprocess_csv
\* finds the grades block and extract_student_info finds its semester column,
\* so the graded rows of the upload are in the record extract_student_info
\* returns for the frames of preprocess_csv.  Stated for the uploads with a
\* title line above the header row, whose header preprocess_csv keeps.
BothSemesterLabelsAccepted ==
  (result.by = "extract_student_info" /\ input.kind = "csv" /\ input.title
   /\ input.label # "none")
    => /\ ~IsEmptyFrame(frames.grade_data)
       /\ HoldsGraded(result.value.academic_records, input)

\* The grades block of an upload: the label row and every row after it,
\* cut to `width` cells.
GradesBlock(in, width) ==
  [i \in 1..(Len(in.courses) + 1) |->
     Take((<<LabelRow(in.label)>> \o CourseRows(in.label, in.courses))[i],
          width)]

\* C10 (preprocess_csv): the remarks frame holds exactly the rows between the
\* header and the label row, the grades frame the label row and all after.
PreprocessSplitsAtLabelRow ==
  (pc = "preprocessed" /\ input.label # "none")
    => /\ frames.main_data.rows = input.notes
       /\ frames.grade_data.rows = GradesBlock(input, Len(grade_columns))

\* The rows of a grades block other than the label row.
CoursesOf(block, label) == SelectSeq(block, LAMBDA r : r # Take(label, Len(r)))

\* C10 (process_csv_file): grade_data holds, beside the label row, exactly
\* the rows after the label row.
ProcessSplitsAtLabelRow ==
  (result.by = "process_csv_file" /\ result.value.ok /\ input.label # "none")
    => CoursesOf(pcf_grade_data(CsvFile(input)), LabelRow(input.label))
       = CoursesOf(GradesBlock(input, 6), LabelRow(input.label))

\* C10: when a semester-label row exists in column 0 the grid is split at the
\* first such row, wherever it is: the remarks block is exactly the rows
\* above it, the grades block exactly that row and all rows after it.
SplitAtFirstLabelRow ==
  /\ PreprocessSplitsAtLabelRow
  /\ ProcessSplitsAtLabelRow

\* The grades dict a record holds for a semester.
GradesOf(v, semester) ==
  IF semester = One THEN v.academic_records.semester1.grades
  ELSE v.academic_records.semester2.grades

\* The rows of the upload as the extractor is handed them.
RowsRead(in) == IF in.kind = "csv" THEN CsvFile(in) ELSE GradesFrame(in).rows

\* Some row whose trimmed first cell is `semester` holds `key` in a cell and
\* the rank of `info` in its 석차등급 cell.
FromRowOf(rows, semester, key, info) ==
  \E i \in 1..Len(rows) :
    /\ Strip(Str(rows[i][1])) = semester
    /\ \E j \in 2..Len(rows[i]) : Strip(Str(rows[i][j])) = key
    /\ ParseFloat(rows[i][6]).ok
    /\ ParseFloat(rows[i][6]).v = info.rank

\* C11: every entry a record holds under semester 1 or 2 comes from a row of
\* the upload whose trimmed semester cell is literally that semester: a row
\* with any other semester cell (3, the label 학기, a missing cell) makes no
\* entry, and no row makes an entry under the other semester.
RecordedUnderOwnSemester ==
  (pc = "done" /\ result.by \in {"process_csv_file", "extract_student_info"}
   /\ result.value.ok)
    => \A semester \in {One, Two} :
         \A key \in DOMAIN GradesOf(result.value, semester) :
           FromRowOf(RowsRead(input), semester, key,
                     GradesOf(result.value, semester)[key])

\* The cell of semester 3, and the cell of semester 1 with blanks around it.
SemesterThree == <<"3">>
SemesterOnePadded == <<" ", "1", " ">>

\* C11 witness: process_csv_file has read the label row and a row of
\* semester 3 as grade rows and recorded neither, and has recorded the row
\* whose semester cell is " 1 " under semester 1.
SemesterThreeSkipped ==
  /\ pc = "done" /\ result.by = "process_csv_file" /\ result.value.ok
  /\ Len(input.notes) = 2
  /\ \E i \in 1..Len(input.courses) :
       input.courses[i][1] = SemesterThree /\ Graded(input.courses[i])
  /\ \E i \in 1..Len(input.courses) : input.courses[i][1] = SemesterOnePadded
  /\ DOMAIN GradesOf(result.value, One) = {Sahoe}
  /\ DOMAIN GradesOf(result.value, Two) = {}

\* A course row that misses its semester cell or its subject cell.
Incomplete(c) == IsNA(c[1]) \/ IsNA(c[3])

\* The upload without those rows, order kept.
WithoutIncomplete(in) ==
  [in EXCEPT !.courses = SelectSeq(in.courses, LAMBDA c : ~Incomplete(c))]

\* The text str() gives a missing cell.
NanText == <<"n", "a", "n">>

\* C12 (process_csv_file): the grades and averages of the record are those of
\* the same upload without the rows that miss the semester or the subject
\* cell, and no course is recorded under the name "nan".
ProcessedWithoutIncompleteRows ==
  (result.by = "process_csv_file" /\ FixedLayout(input))
    => /\ result.value.academic_records
          = process_csv_file(CsvFile(WithoutIncomplete(input))).academic_records
       /\ \A semester \in {One, Two} :
            NanText \notin DOMAIN GradesOf(result.value, semester)

\* C12 (extract_student_info): likewise for the frames of a caller.
ExtractedWithoutIncompleteRows ==
  (result.by = "extract_student_info" /\ LabelledFrames(input))
    => /\ result.value.academic_records
          = extract_student_info(NotesFrame(WithoutIncomplete(input)),
                                 GradesFrame(WithoutIncomplete(input)))
              .academic_records
       /\ \A semester \in {One, Two} :
            NanText \notin DOMAIN GradesOf(result.value, semester)

\* C12: a row whose semester cell or subject cell is missing is discarded
\* without error: no course (none named "nan") is recorded for it and it
\* changes no average.
IncompleteRowsDiscarded ==
  /\ ProcessedWithoutIncompleteRows
  /\ ExtractedWithoutIncompleteRows

\* A course row the extractors accept for `semester`: the trimmed semester
\* cell names it, the subject cell is there and the rank is above 0.
Accepted(c, semester) ==
  NotNA(c[1]) /\ Strip(Str(c[1])) = semester /\ NotNA(c[3]) /\ Graded(c)

\* The accepted rows of a semester, as positions in the list.
AcceptedIn(courses, semester) ==
  {i \in 1..Len(courses) : Accepted(courses[i], semester)}

\* The accepted rows of a semester that no later accepted row of the same
\* semester repeats the subject of.
LastAcceptedIn(courses, semester) ==
  {i \in AcceptedIn(courses, semester) :
     \A j \in AcceptedIn(courses, semester) :
       j > i => Strip(Str(courses[j][3])) # Strip(Str(courses[i][3]))}

\* The credit of a course row: the parsed credit cell, 1 without one.
CreditOf(c) == IF ParseFloat(c[4]).ok THEN ParseFloat(c[4]).v ELSE 1

\* Every accepted row is in the record, with the credit of its credit cell
\* or 1 when that cell is missing or no number.
RecordedWithCredit(v, in) ==
  \A semester \in {One, Two} :
    \A i \in LastAcceptedIn(in.courses, semester) :
      /\ Strip(Str(in.courses[i][3])) \in DOMAIN GradesOf(v, semester)
      /\ GradesOf(v, semester)[Strip(Str(in.courses[i][3]))].credit
         = CreditOf(in.courses[i])

\* C13 (process_csv_file): a graded row is recorded with credit 1 when its
\* credit cell is missing or cannot be parsed.
ProcessedCreditDefaultsToOne ==
  (result.by = "process_csv_file" /\ FixedLayout(input))
    => RecordedWithCredit(result.value, input)

\* C13 (extract_student_info): likewise for the frames of a caller.
ExtractedCreditDefaultsToOne ==
  (result.by = "extract_student_info" /\ LabelledFrames(input))
    => RecordedWithCredit(result.value, input)

\* C13: credit_hours of a recorded course is the number parsed from its credit
\* cell and 1.0 when the cell is absent or unparseable; the course is recorded
\* either way.
CreditDefaultsToOne ==
  /\ ProcessedCreditDefaultsToOne
  /\ ExtractedCreditDefaultsToOne

\* The number in front of the first '/' of a combined score cell.
FirstToken(cell) == ParseFloat(SplitFirst(Str(cell), "/"))

\* The raw score the approximation gives a rank.
ApproximatedScore(rank) == 100 - ((rank - 1) * 10)

\* info carries the raw score of the row: the number in front of the first
\* '/' of its score cell, and 0 or the approximation when there is none.
RawScoreOfRow(row, info) ==
  IF NotNA(row[4]) /\ FirstToken(row[4]).ok
  THEN info.raw_score = FirstToken(row[4]).v
  ELSE info.raw_score \in {0, ApproximatedScore(info.rank)}

\* Every entry of the record carries the raw score of the row it is from.
RawScoresOfRows(v, rows) ==
  \A semester \in {One, Two} :
    \A key \in DOMAIN GradesOf(v, semester) :
      \E i \in 1..Len(rows) :
        /\ Strip(Str(rows[i][1])) = semester
        /\ \E j \in 2..Len(rows[i]) : Strip(Str(rows[i][j])) = key
        /\ ParseFloat(rows[i][6]).ok
        /\ ParseFloat(rows[i][6]).v = GradesOf(v, semester)[key].rank
        /\ RawScoreOfRow(rows[i], GradesOf(v, semester)[key])

\* The accepted rows with a numeric credit whose score cell gives no number
\* are in the record all the same.
UnscoredRowsRecorded(v, in) ==
  \A semester \in {One, Two} :
    \A i \in LastAcceptedIn(in.courses, semester) :
      (ParseFloat(in.courses[i][4]).ok
       /\ ~(NotNA(in.courses[i][5]) /\ FirstToken(in.courses[i][5]).ok))
        => \E key \in DOMAIN GradesOf(v, semester) :
             GradesOf(v, semester)[key].rank = ParseFloat(in.courses[i][7]).v

\* C14 (process_csv_file): raw_score is the number in front of the first '/'
\* of the score cell; without such a number it is 0 or 100 - (rank - 1) * 10
\* and the course is still recorded.
ProcessedRawScoreIsFirstToken ==
  (result.by = "process_csv_file" /\ result.value.ok /\ input.label # "spaced")
    => /\ RawScoresOfRows(result.value, RowsRead(input))
       /\ FixedLayout(input) => UnscoredRowsRecorded(result.value, input)

\* C14 (extract_student_info): likewise for the frames of a caller, whose
\* score column is labelled 원점수 or 원점수/과목평균.
ExtractedRawScoreIsFirstToken ==
  (result.by = "extract_student_info" /\ input.kind = "frames"
   /\ input.label # "spaced")
    => /\ RawScoresOfRows(result.value, RowsRead(input))
       /\ UnscoredRowsRecorded(result.value, input)

\* C14: raw_score of a recorded course is the number parsed from the first
\* '/'-separated token of the combined score cell; if that token is absent or
\* no number, raw_score is 0 or the approximation, and the course is recorded.
RawScoreIsFirstToken ==
  /\ ProcessedRawScoreIsFirstToken
  /\ ExtractedRawScoreIsFirstToken

\* The columns of the upload labelled `label`.
ColumnsOf(label) == {j \in 1..Len(HeaderRow) : HeaderRow[j] = label}

\* The first non-empty cell of the 진로희망 column of the remarks rows, 미정
\* without one.
ExpectedCareer(in) ==
  IF \E j \in ColumnsOf(Jinrohuimang) : FilledAt(in, j) # {}
  THEN in.notes[SetMin(FilledAt(in, SetMin(ColumnsOf(Jinrohuimang))))]
               [SetMin(ColumnsOf(Jinrohuimang))]
  ELSE Mijeong

\* C15 (process_csv_file): career_aspiration is the first non-empty cell of
\* the 진로희망 column, 미정 without one; for the uploads whose first line is
\* the header row and that have a remarks row.
ProcessedCareerIsFirstFilledCell ==
  (result.by = "process_csv_file" /\ result.value.ok /\ ~input.title
   /\ input.notes # << >>)
    => result.value.career_aspiration = ExpectedCareer(input)

\* C15 (extract_student_info): likewise for the remarks frame of a caller.
ExtractedCareerIsFirstFilledCell ==
  (result.by = "extract_student_info" /\ input.kind = "frames")
    => result.value.career_aspiration = ExpectedCareer(input)

\* C15: career_aspiration is the first non-empty cell of the 진로희망 column
\* when that column is present with a value, and 미정 otherwise.
CareerIsFirstFilledCell ==
  /\ ProcessedCareerIsFirstFilledCell
  /\ ExtractedCareerIsFirstFilledCell

\* The dict d has no entry for a column of the upload labelled with one of
\* `labels` that no remarks row fills.
Unfilled(d, in, labels) ==
  \A j \in 1..Len(HeaderRow) :
    (HeaderRow[j] \in labels /\ FilledAt(in, j) = {})
      => HeaderRow[j] \notin DOMAIN d

\* The remarks of a record are the first filled cells of the subject and
\* activity columns of the upload.
FirstFilledCells(v, in) ==
  /\ Populated(v.special_notes.subjects, in, subject_cols)
  /\ Unfilled(v.special_notes.subjects, in, subject_cols)
  /\ Populated(v.special_notes.activities, in, activity_cols)
  /\ Unfilled(v.special_notes.activities, in, activity_cols)

\* C16 (process_csv_file): the remark stored for a subject or activity column
\* is its first non-empty cell, whichever remarks row holds it, and a column
\* without a cell has no entry; for the uploads whose first line is the header
\* row and that have a remarks row.
ProcessedRemarksAreFirstFilledCells ==
  (result.by = "process_csv_file" /\ result.value.ok /\ ~input.title
   /\ input.notes # << >>)
    => FirstFilledCells(result.value, input)

\* C16 (extract_student_info): likewise for the remarks frame of a caller.
ExtractedRemarksAreFirstFilledCells ==
  (result.by = "extract_student_info" /\ input.kind = "frames")
    => FirstFilledCells(result.value, input)

\* C16: for each known subject or activity column label the stored remark is
\* the first non-empty cell of that column, whichever remarks row it is in; a
\* column with no non-empty cell yields no entry.
RemarksAreFirstFilledCells ==
  /\ ProcessedRemarksAreFirstFilledCells
  /\ ExtractedRemarksAreFirstFilledCells

\* C17 (process_csv_file): the keys of the stored remarks.
ProcessedRemarkKeysAreKnown ==
  (result.by = "process_csv_file" /\ result.value.ok)
    => /\ DOMAIN result.value.special_notes.activities \subseteq activity_cols
       /\ DOMAIN result.value.special_notes.subjects \subseteq subject_cols

\* C17 (extract_student_info): the keys of the stored remarks.
ExtractedRemarkKeysAreKnown ==
  result.by = "extract_student_info"
    => /\ DOMAIN result.value.special_notes.activities \subseteq activity_cols
       /\ DOMAIN result.value.special_notes.subjects \subseteq subject_cols

\* C17: the keys of activity_remarks are activity names only (자율, 동아리,
\* 진로, 행특, 개인): a subject column or the 진로희망 column is never stored
\* among the activities; the keys of subject_remarks are subject names only.
RemarkKeysAreKnown ==
  /\ ProcessedRemarkKeysAreKnown
  /\ ExtractedRemarkKeysAreKnown

\* The record holds as many entries for each semester as the upload has
\* accepted rows of that semester.
OneEntryPerRow(v, in) ==
  \A semester \in {One, Two} :
    Cardinality(DOMAIN GradesOf(v, semester))
    = Cardinality(AcceptedIn(in.courses, semester))

\* Every course row has a subject cell and a numeric credit cell.
WellFormedRows(in) ==
  \A i \in 1..Len(in.courses) :
    NotNA(in.courses[i][3]) /\ ParseFloat(in.courses[i][4]).ok

\* C18 (process_csv_file): one entry per accepted graded row, also when two
\* rows of a semester name the same subject; for uploads whose rows all have
\* a subject and a numeric credit.
ProcessedOneEntryPerRow ==
  (result.by = "process_csv_file" /\ FixedLayout(input)
   /\ WellFormedRows(input))
    => OneEntryPerRow(result.value, input)

\* C18 (extract_student_info): likewise for the frames of a caller.
ExtractedOneEntryPerRow ==
  (result.by = "extract_student_info" /\ LabelledFrames(input))
    => OneEntryPerRow(result.value, input)

\* C18: the grades of a semester hold one entry per accepted graded row: two
\* rows with the same subject in the same semester yield two entries, and
\* neither overwrites the other.
EveryAcceptedRowHasItsEntry ==
  /\ ProcessedOneEntryPerRow
  /\ ExtractedOneEntryPerRow

\* The keys under which a record carries averages.
AveragedKeys(v) ==
  {k \in DOMAIN v.academic_records : "average" \in DOMAIN v.academic_records[k]}

\* C19 (process_csv_file): the record carries averages for semester 1,
\* semester 2 and "total".
ProcessedAveragesForAllThree ==
  (result.by = "process_csv_file" /\ result.value.ok)
    => {"semester1", "semester2", "total"} \subseteq AveragedKeys(result.value)

\* C19 (extract_student_info): the record carries averages for semester 1,
\* semester 2 and "total".
ExtractedAveragesForAllThree ==
  result.by = "extract_student_info"
    => {"semester1", "semester2", "total"} \subseteq AveragedKeys(result.value)

\* C19: every record a successful extraction returns carries averages for
\* semester 1, semester 2 and "total", all three keys, whatever the input,
\* one without grades included.
AveragesForAllThree ==
  /\ ProcessedAveragesForAllThree
  /\ ExtractedAveragesForAllThree

NotInfo(courses) == {i \in 1..Len(courses) : courses[i][3] # Jeongbo}

RoundedMean(courses) ==
  IF SumAt(courses, NotInfo(courses), "credits") = 0 THEN [raised |-> TRUE]
  ELSE [raised |-> FALSE,
        value |-> Round2(WeightedAverage(courses, NotInfo(courses)))]

AtMost(a, b) == a[1] * b[2] <= b[1] * a[2]

\* A bar was computed for a grade 1..9 and a credit above 0.
BarOfGradedSubject ==
  /\ result.by = "credit_adjusted"
  /\ input.g \in 1..9
  /\ IsPositive(input.c)

\* v is g - 0.2 * (c - 1) limited below at 1.
IsAdjustment(v, g, c) ==
  IF AtMost(Frac(5 * g - 4, 1), c)
  THEN v = Frac(1, 1)
  ELSE v[1] * 5 * c[2] = v[2] * ((5 * g + 1) * c[2] - c[1])

\* C26 as stated: for a grade g in 1..9 and every positive credit c the
\* adjusted grade is g - 0.2 * (c - 1) limited below at 1, it is at least 1,
\* at most 9 and never larger than g.
AdjustedNeverWorse ==
  BarOfGradedSubject
    => /\ IsAdjustment(result.value, input.g, input.c)
       /\ AtMost(Frac(1, 1), result.value)
       /\ AtMost(result.value, Frac(9, 1))
       /\ AtMost(result.value, Frac(input.g, 1))

\* C26 (amended): for a grade g in 1..9 and a credit c above 0 the adjusted
\* grade is g - 0.2 * (c - 1) limited below at 1 and so at least 1; for every
\* credit of 1 or more it is at most 9 and never larger than g, and for a
\* credit below 1 it is larger than g.
AdjustedNeverWorseFromOneCredit ==
  BarOfGradedSubject
    => /\ IsAdjustment(result.value, input.g, input.c)
       /\ AtMost(Frac(1, 1), result.value)
       /\ AtMost(Frac(1, 1), input.c)
            => /\ AtMost(result.value, Frac(9, 1))
               /\ AtMost(result.value, Frac(input.g, 1))
       /\ ~AtMost(Frac(1, 1), input.c)
            => ~AtMost(result.value, Frac(input.g, 1))

\* C26 witness: the bar of a grade 2 with 50 credits stands at the limit 1.
AdjustedToTheLimit ==
  /\ BarOfGradedSubject
  /\ input.g = 2 /\ input.c = Frac(50, 1)
  /\ result.value = Frac(1, 1)

\* C29: analyze_with_claude calls the standard client only after the direct
\* HTTP request raised an exception, never after a response was returned
\* (with status 200 or any other), at most once per invocation, and it
\* returns a string whatever the fallback does.
FallbackOnlyAfterFailedRequest ==
  (result.by = "analyze_with_claude")
    => /\ result.value.fallbacks # << >> => result.value.posts = <<"raises">>
       /\ Len(result.value.fallbacks) <= 1
       /\ result.value.returned = "str"

\* The part of C29 that holds: at most one call of the standard client, none
\* after a response with another status than 200 or without a request, and a
\* string is returned.
OneFallbackAndAString ==
  (result.by = "analyze_with_claude")
    => /\ Len(result.value.fallbacks) <= 1
       /\ result.value.posts \in {<< >>, <<"not_200">>}
            => result.value.fallbacks = << >>
       /\ result.value.returned = "str"

\* main has answered the upload `input`.
PageShown == result.by = "main" /\ pc = "done"

\* The extraction of the upload fails: its bytes do not decode, or
\* process_csv_file gives no record for its lines.
ExtractionFails(in) ==
  ~UploadedFile(in).decodes \/ ~process_csv_file(UploadedFile(in).lines).ok

\* No request was sent, no tab is on the page, and a message is.
Aborted(page) ==
  /\ page.student_info.requests = << >>
  /\ page.shown \cap {"tabs", "original", "grades", "remarks", "ai"} = {}
  /\ page.shown \cap {"error", "warning"} # {}

\* C22: when the extraction of an upload fails, the page shows a message to
\* the user and stops there: no request is sent to the LLM and no grade,
\* remark or AI tab is rendered.
FailedUploadIsAborted ==
  (PageShown /\ ExtractionFails(input)) => Aborted(result.value)

\* The part of C22 that holds: a file whose bytes are not UTF-8 is answered
\* with the messages alone.
UndecodableUploadIsAborted ==
  (PageShown /\ ~UploadedFile(input).decodes) => Aborted(result.value)

PayloadDependsOnRecord ==
  (result.by = "analyze_student_record" /\ result.value.requests # << >>)
    => \A other \in ToolInputs :
         (other.kind = "student_data" /\ other.data.ok /\ input.data.ok
          /\ other.data # input.data)
           => analyze_student_record(other.data, result.env.key,
                                     result.env.outcome).requests
                # result.value.requests

\* C28: analyze_student_record never raises and returns a mapping with an
\* "analysis" text for every API outcome (missing key, another status than
\* 200, 200 without content, any exception), and with a missing key it
\* returns without sending a request.
AnalysisAlwaysReturned ==
  (result.by = "analyze_student_record")
    => /\ pc = "done" /\ ~result.value.raised
       /\ result.value.analysis
            \in {"no_key", "failed", "result_text", "no_content", "api_error",
                 "dummy_analysis", "error"}
       /\ result.env.key # "set" => result.value.requests = << >>
       /\ result.env.key = "set" => Len(result.value.requests) = 1

\* C28 witness: the call returned the text about the key, the environment
\* holding none.
ReturnedWithoutKey ==
  /\ result.by = "analyze_student_record"
  /\ result.env.key = "missing"
  /\ input.data.ok
  /\ result.value.analysis = "no_key"

\* Every course of `in` that extract_student_info accepts, the last one of
\* its subject and semester, is recorded in v under its subject (the 과목
\* cell) with the raw score of its row (the number before the slash of the
\* 원점수 cell).
KeyedBySubjectWithScore(v, in) ==
  \A semester \in {One, Two} :
    \A i \in LastAcceptedIn(in.courses, semester) :
      /\ Strip(Str(in.courses[i][3])) \in DOMAIN GradesOf(v, semester)
      /\ FirstToken(in.courses[i][5]).ok
           => GradesOf(v, semester)[Strip(Str(in.courses[i][3]))].raw_score
                = FirstToken(in.courses[i][5]).v

\* C30: for the labels [학기, 과목, 학점수, 원점수/과목평균, 성취도, 석차등급]
\* extract_student_info binds the subject to the 과목 column and the raw score
\* to the 원점수/과목평균 column: each recorded course is keyed by its subject
\* name and carries the raw score of its row.
SubjectAndScoreColumnsBound ==
  (result.by = "extract_student_info" /\ pc = "done"
   /\ input.kind = "frames" /\ input.label = "plain")
    => KeyedBySubjectWithScore(result.value, input)

\* The part of C30 that holds: with the label 원점수 in place of
\* 원점수/과목평균 the courses are keyed by subject with their raw score.
ShortLabelColumnsBound ==
  (result.by = "extract_student_info" /\ pc = "done"
   /\ input.kind = "frames" /\ input.label = "short")
    => KeyedBySubjectWithScore(result.value, input)

\* A numeric sub-field of the course (학점수, the score before the slash, or
\* 석차등급) is filled with something that is no number.
Malformed(c) ==
  \/ NotNA(c[4]) /\ ~ParseFloat(c[4]).ok
  \/ NotNA(c[5]) /\ ~FirstToken(c[5]).ok
  \/ NotNA(c[7]) /\ ~ParseFloat(c[7]).ok

\* A graded course of the semester with a numeric credit and raw score.
WellFormed(c, semester) ==
  /\ Accepted(c, semester)
  /\ ParseFloat(c[4]).ok
  /\ NotNA(c[5]) /\ FirstToken(c[5]).ok

WithoutMalformed(in) ==
  [in EXCEPT !.courses = SelectSeq(in.courses, LAMBDA c : ~Malformed(c))]

\* Every well-formed course of `in` has in v the entry it has in v0.
RecordedAsIn(v, v0, in) ==
  \A semester \in {One, Two} :
    \A i \in 1..Len(in.courses) :
      WellFormed(in.courses[i], semester)
        => /\ Strip(Str(in.courses[i][3])) \in DOMAIN GradesOf(v0, semester)
           /\ Strip(Str(in.courses[i][3])) \in DOMAIN GradesOf(v, semester)
           /\ GradesOf(v, semester)[Strip(Str(in.courses[i][3]))]
                = GradesOf(v0, semester)[Strip(Str(in.courses[i][3]))]

\* There is a malformed course, and no well-formed course shares its subject
\* and semester with a malformed one.
MalformedApart(in) ==
  /\ \E i \in 1..Len(in.courses) : Malformed(in.courses[i])
  /\ \A i, j \in 1..Len(in.courses) :
       (Malformed(in.courses[i]) /\ ~Malformed(in.courses[j]))
         => \/ Strip(Str(in.courses[i][3])) # Strip(Str(in.courses[j][3]))
            \/ Strip(Str(in.courses[i][1])) # Strip(Str(in.courses[j][1]))

ProcessedAsWithoutMalformedRows ==
  (result.by = "process_csv_file" /\ pc = "done" /\ FixedLayout(input))
    => /\ result.value.ok
       /\ RecordedAsIn(result.value,
                       process_csv_file(CsvFile(WithoutMalformed(input))),
                       input)

ExtractedAsWithoutMalformedRows ==
  (result.by = "extract_student_info" /\ pc = "done" /\ LabelledFrames(input))
    => RecordedAsIn(result.value,
                    extract_student_info(NotesFrame(WithoutMalformed(input)),
                                         GradesFrame(WithoutMalformed(input))),
                    input)

\* C25: a grade row whose numeric sub-fields cannot be parsed never aborts
\* the processing of the other rows: each well-formed graded row is recorded
\* exactly as it would be if the malformed rows were removed from the input.
MalformedRowsLeaveTheOthers ==
  /\ ProcessedAsWithoutMalformedRows
  /\ ExtractedAsWithoutMalformedRows

\* The part of C25 that holds: both extractors record the well-formed rows as
\* without the malformed ones when those are of other subjects or semesters.
MalformedRowsApartLeaveTheOthers ==
  MalformedApart(input)
    => ProcessedAsWithoutMalformedRows /\ ExtractedAsWithoutMalformedRows

\* The input holds no remark and no course: a CSV file of the header line
\* alone, or two frames without rows.
EmptyInput(in) ==
  /\ in.kind \in {"csv", "frames"}
  /\ ~in.title /\ in.notes = << >> /\ in.courses = << >>
  /\ in.kind = "csv" => in.label = "none"

\* The call ended in an exception or without a record.
ErrorOutcome == pc = "raised" \/ (pc = "done" /\ ~result.value.ok)

\* C21: an empty or unparseable input ends in an error outcome of its own,
\* which the caller can tell from a valid but empty record: no extractor
\* returns an ordinary (empty or default) record for it.
EmptyInputIsAnError ==
  (pc \in {"done", "raised"} /\ EmptyInput(input)) => ErrorOutcome

\* The part of C21 that holds: preprocess_csv raises and process_csv_file
\* returns {} for the file of the header line alone.
EmptyFileGivesNoRecord ==
  (pc \in {"done", "raised"} /\ EmptyInput(input) /\ input.kind = "csv")
    => ErrorOutcome

====
